---- MODULE Spec2Model ----
(***************************************************************************)
(* A model of the SBON codec (class SBON of src/src/SBON.ts): the VarInt   *)
(* codec and the tagged-value codec built on it, applied to an in-memory   *)
(* sink (ExpandingBuffer) and an in-memory source (ConsumableBuffer).      *)
(*                                                                         *)
(* Integers of the program exceed 2^31, so a natural number is held as its *)
(* binary numeral: a sequence of bits, least significant first, without    *)
(* high-order zeros (zero is the empty sequence).  A bigInt is a sign and  *)
(* such a magnitude; a JavaScript number is a sign, the numeral of its     *)
(* integer part and the binary digits of its fractional part.              *)
(***************************************************************************)
EXTENDS Integers, Sequences, FiniteSets, TLC

VARIABLES
    sink,   \* the bytes held by the ExpandingBuffer
    wlog,   \* the write-side calls made on the sink, in order
    src,    \* the bytes held by the ConsumableBuffer
    cur,    \* the read cursor of the ConsumableBuffer
    elen,   \* how many leading bytes of src were taken from the sink
    rlog,   \* the read-side calls made on the source, in order
    procs,  \* two calls in progress at once, each on a stream of its own
    slots   \* the "let value" of the readVarInt in progress in each call

vars == <<sink, wlog, src, cur, elen, rlog, procs, slots>>

(***************************************************************************)
(* Binary numerals                                                         *)
(***************************************************************************)
RECURSIVE Bits(_)
Bits(n) == IF n = 0 THEN <<>> ELSE <<n % 2>> \o Bits(n \div 2)

\* b without its high-order zeros
Trim(b) ==
    IF b = <<>> \/ b[Len(b)] = 1 THEN b
    ELSE IF \A i \in 1..Len(b) : b[i] = 0 THEN <<>>
    ELSE SubSeq(b, 1, CHOOSE i \in 1..Len(b) :
                        b[i] = 1 /\ \A j \in (i + 1)..Len(b) : b[j] = 0)

Zeros(n) == [i \in 1..n |-> 0]

MaxOf(a, b) == IF a >= b THEN a ELSE b

Bit(b, i) == IF i >= 1 /\ i <= Len(b) THEN b[i] ELSE 0

\* the low n bits of b, as a numeral padded to exactly n bits
LowBits(b, n) == [i \in 1..n |-> Bit(b, i)]

RECURSIVE Val(_)
Val(b) == IF b = <<>> THEN 0 ELSE b[1] + 2 * Val(Tail(b))

\* the lowest position of b that holds bit x, or Len(b) + 1
Lowest(b, x) ==
    IF \E i \in 1..Len(b) : b[i] = x
    THEN CHOOSE i \in 1..Len(b) : b[i] = x /\ \A j \in 1..(i - 1) : b[j] # x
    ELSE Len(b) + 1

\* b + 1: the carry runs through the low-order ones
Inc(b) ==
    LET k == Lowest(b, 0)
    IN  [i \in 1..MaxOf(Len(b), k) |->
            IF i < k THEN 0 ELSE IF i = k THEN 1 ELSE b[i]]

\* b - 1, for b # 0: the borrow runs through the low-order zeros
Dec(b) ==
    LET k == Lowest(b, 1)
    IN  Trim([i \in 1..Len(b) |->
                IF i < k THEN 1 ELSE IF i = k THEN 0 ELSE b[i]])

Shl(b, n) == IF b = <<>> THEN <<>> ELSE Zeros(n) \o b

Shr(b, n) == IF Len(b) <= n THEN <<>> ELSE SubSeq(b, n + 1, Len(b))

OrBits(a, b) ==
    Trim([i \in 1..MaxOf(Len(a), Len(b)) |->
            IF Bit(a, i) = 1 \/ Bit(b, i) = 1 THEN 1 ELSE 0])

AndBits(a, b) ==
    Trim([i \in 1..Len(b) |-> IF Bit(a, i) = 1 /\ b[i] = 1 THEN 1 ELSE 0])

\* the numeral of hi * 2^28 + lo, for lo < 2^28
Wide(hi, lo) == Trim(LowBits(Bits(lo), 28) \o Bits(hi))

Reverse(s) == [i \in 1..Len(s) |-> s[Len(s) + 1 - i]]

\* F applied to the value of x, with x evaluated once (const r = x; F(r))
With(x, F(_)) == CHOOSE y \in {F(v) : v \in {x}} : TRUE

(***************************************************************************)
(* bigInt (the big-integer package): the operations SBON.ts calls          *)
(***************************************************************************)
BigInt(neg, mag) == [t |-> "bigInt", neg |-> neg /\ mag # <<>>, mag |-> mag]

isZero(x) == x.mag = <<>>

abs(x) == BigInt(FALSE, x.mag)

lt0(x) == x.neg

\* x.times(-1)
negate(x) == BigInt(~x.neg, x.mag)

\* x.add(1)
add1(x) ==
    IF x.neg THEN BigInt(TRUE, Dec(x.mag)) ELSE BigInt(FALSE, Inc(x.mag))

\* x.minus(1)
minus1(x) ==
    IF x.neg THEN BigInt(TRUE, Inc(x.mag))
    ELSE IF x.mag = <<>> THEN BigInt(TRUE, <<1>>)
    ELSE BigInt(FALSE, Dec(x.mag))

shiftLeft(x, n) == BigInt(x.neg, Shl(x.mag, n))

\* x.shiftRight(n) rounds toward minus infinity (two's complement)
shiftRight(x, n) ==
    IF x.neg THEN BigInt(TRUE, Inc(Shr(Dec(x.mag), n)))
    ELSE BigInt(FALSE, Shr(x.mag, n))

\* x.and(m) for a mask m >= 0 given as a numeral; a negative x is read in
\* two's complement, whose bits are those of |x| - 1, inverted
and(x, m) ==
    IF x.neg
    THEN BigInt(FALSE,
           Trim([i \in 1..Len(m) |->
                  IF m[i] = 1 /\ Bit(Dec(x.mag), i) = 0 THEN 1 ELSE 0]))
    ELSE BigInt(FALSE, AndBits(x.mag, m))

\* x.or(y), both non-negative (the only use SBON.ts makes of it)
or(x, y) == BigInt(FALSE, OrBits(x.mag, y.mag))

(***************************************************************************)
(* JavaScript numbers (IEEE-754 binary64)                                  *)
(***************************************************************************)
Num(neg, int, frac) ==
    [t |-> "number", cls |-> "finite", neg |-> neg, int |-> int, frac |-> frac]

NaN == [t |-> "number", cls |-> "nan", neg |-> FALSE, int |-> <<>>, frac |-> <<>>]

Infinity(neg) ==
    [t |-> "number", cls |-> "inf", neg |-> neg, int |-> <<>>, frac |-> <<>>]

\* a numeral rounded to 53 significant bits, ties to even
Round53(mag) ==
    IF Len(mag) <= 53 THEN mag
    ELSE LET k      == Len(mag) - 53
             kept   == SubSeq(mag, k + 1, Len(mag))
             half   == mag[k] = 1
             sticky == \E i \in 1..(k - 1) : mag[i] = 1
             up     == half /\ (sticky \/ kept[1] = 1)
         IN  Shl(IF up THEN Inc(kept) ELSE kept, k)

\* x.toJSNumber(): the nearest double
toJSNumber(x) == Num(x.neg, Round53(x.mag), <<>>)

\* bigInt(n) of a number: defined for the integers only
bigIntOfNumberThrows(n) == n.cls # "finite" \/ n.frac # <<>>

bigIntOfNumber(n) == BigInt(n.neg, n.int)

\* bigInt(v) when v is a number or already a bigInt
bigInt(v) == IF v.t = "number" THEN bigIntOfNumber(v) ELSE v

\* a === b on numbers
NumStrictEq(a, b) ==
    /\ a.cls # "nan" /\ b.cls # "nan"
    /\ a.cls = b.cls
    /\ a.int = b.int /\ a.frac = b.frac
    /\ (a.neg = b.neg \/ (a.cls = "finite" /\ a.int = <<>> /\ a.frac = <<>>))

\* n | 0 : ToInt32, truncation then reduction modulo 2^32 into [-2^31, 2^31)
ToInt32(n) ==
    IF n.cls # "finite" THEN Num(FALSE, <<>>, <<>>)
    ELSE LET m == Trim(LowBits(n.int, 32))
             \* 2^32 - m, for 0 < m < 2^32
             c == Trim(LowBits(Inc([i \in 1..32 |-> 1 - Bit(m, i)]), 32))
         IN  IF m = <<>> THEN Num(FALSE, <<>>, <<>>)
             ELSE IF ~n.neg
                  THEN IF Len(m) <= 31 THEN Num(FALSE, m, <<>>)
                       ELSE Num(TRUE, c, <<>>)
                  ELSE IF Len(c) <= 31 THEN Num(FALSE, c, <<>>)
                       ELSE Num(TRUE, m, <<>>)

RECURSIVE Pow2(_)
Pow2(n) == IF n = 0 THEN 1 ELSE 2 * Pow2(n - 1)

\* the 8 bits of a byte, most significant first
ByteBits(b) == [j \in 1..8 |-> (b \div Pow2(8 - j)) % 2]

\* the value of a run of bits given most significant first
ValMsb(s) == Val(Reverse(s))

\* 64 bits, most significant first, packed into 8 bytes
Pack8(bits) == [k \in 1..8 |-> ValMsb(SubSeq(bits, 8 * k - 7, 8 * k))]

\* the index of the first 1 in s, or 0
FirstOne(s) == IF Lowest(s, 1) > Len(s) THEN 0 ELSE Lowest(s, 1)

\* buf.writeDoubleBE(n, 0): the binary64 image of n, big-endian
writeDoubleBE(n) ==
    LET sign == IF n.neg THEN 1 ELSE 0
        d    == Reverse(n.int) \o n.frac
        p    == FirstOne(d)
        e    == Len(n.int) - p
        expo(x) == Reverse(LowBits(Bits(x), 11))
    IN  IF n.cls = "nan"
        THEN Pack8(<<0>> \o expo(2047) \o <<1>> \o Zeros(51))
        ELSE IF n.cls = "inf"
        THEN Pack8(<<sign>> \o expo(2047) \o Zeros(52))
        ELSE IF p = 0
        THEN Pack8(<<sign>> \o Zeros(63))
        ELSE IF e >= 0 - 1022
        THEN Pack8(<<sign>> \o expo(e + 1023) \o [i \in 1..52 |-> Bit(d, p + i)])
        ELSE Pack8(<<sign>> \o Zeros(11) \o [i \in 1..52 |-> Bit(n.frac, 1022 + i)])

\* buf.readDoubleBE(0) of 8 bytes
readDoubleBE(buf) ==
    LET bits == ByteBits(buf[1]) \o ByteBits(buf[2]) \o ByteBits(buf[3])
                \o ByteBits(buf[4]) \o ByteBits(buf[5]) \o ByteBits(buf[6])
                \o ByteBits(buf[7]) \o ByteBits(buf[8])
        neg  == bits[1] = 1
        expv == ValMsb(SubSeq(bits, 2, 12))
        mant == SubSeq(bits, 13, 64)
        sig  == <<IF expv = 0 THEN 0 ELSE 1>> \o mant
        e    == IF expv = 0 THEN 0 - 1022 ELSE expv - 1023
        int  == IF e >= 0 THEN Trim(Reverse([i \in 1..(e + 1) |-> Bit(sig, i)]))
                ELSE <<>>
        frac == IF e >= 0 THEN Trim(SubSeq(sig, e + 2, 53))
                ELSE Trim(Zeros(0 - e - 1) \o sig)
    IN  IF expv = 2047
        THEN IF FirstOne(mant) = 0 THEN Infinity(neg) ELSE NaN
        ELSE Num(neg, int, frac)

(***************************************************************************)
(* Strings: a string is its sequence of Unicode code points                *)
(***************************************************************************)
Str(cps) == [t |-> "string", s |-> cps]

IsSurrogate(c) == c >= 55296 /\ c <= 57343

\* Buffer.from(str, 'utf8') of one code point
Utf8OfCodePoint(c) ==
    IF c < 128 THEN <<c>>
    ELSE IF c < 2048 THEN <<192 + (c \div 64), 128 + (c % 64)>>
    ELSE IF IsSurrogate(c) THEN <<239, 191, 189>>
    ELSE IF c < 65536
    THEN <<224 + (c \div 4096), 128 + ((c \div 64) % 64), 128 + (c % 64)>>
    ELSE <<240 + (c \div 262144), 128 + ((c \div 4096) % 64),
           128 + ((c \div 64) % 64), 128 + (c % 64)>>

\* the concatenation of a sequence of sequences
RECURSIVE Flatten(_)
Flatten(ss) ==
    IF ss = <<>> THEN <<>>
    ELSE IF Len(ss) = 1 THEN ss[1]
    ELSE Flatten(SubSeq(ss, 1, Len(ss) \div 2))
           \o Flatten(SubSeq(ss, (Len(ss) \div 2) + 1, Len(ss)))

\* Buffer.from(str, 'utf8')
Utf8Encode(cps) == Flatten([i \in 1..Len(cps) |-> Utf8OfCodePoint(cps[i])])

IsCont(b, i) == i <= Len(b) /\ b[i] >= 128 /\ b[i] <= 191

InRange(b, i, lo, hi) == i <= Len(b) /\ b[i] >= lo /\ b[i] <= hi

\* the decoding of the sequence that starts at b[i]: the code point and
\* the number of bytes used; an ill-formed sequence gives U+FFFD for its
\* maximal well-formed prefix
Utf8Step(b, i) ==
    LET c == b[i]
        bad(n) == [cp |-> 65533, n |-> n]
    IN  IF c < 128 THEN [cp |-> c, n |-> 1]
        ELSE IF c >= 194 /\ c <= 223
        THEN IF IsCont(b, i + 1)
             THEN [cp |-> (c - 192) * 64 + (b[i + 1] - 128), n |-> 2]
             ELSE bad(1)
        ELSE IF c >= 224 /\ c <= 239
        THEN IF InRange(b, i + 1, IF c = 224 THEN 160 ELSE 128,
                                  IF c = 237 THEN 159 ELSE 191)
             THEN IF IsCont(b, i + 2)
                  THEN [cp |-> (c - 224) * 4096 + (b[i + 1] - 128) * 64
                                + (b[i + 2] - 128), n |-> 3]
                  ELSE bad(2)
             ELSE bad(1)
        ELSE IF c >= 240 /\ c <= 244
        THEN IF InRange(b, i + 1, IF c = 240 THEN 144 ELSE 128,
                                  IF c = 244 THEN 143 ELSE 191)
             THEN IF IsCont(b, i + 2)
                  THEN IF IsCont(b, i + 3)
                       THEN [cp |-> (c - 240) * 262144 + (b[i + 1] - 128) * 4096
                                     + (b[i + 2] - 128) * 64 + (b[i + 3] - 128),
                             n |-> 4]
                       ELSE bad(3)
                  ELSE bad(2)
             ELSE bad(1)
        ELSE bad(1)

\* b[i] starts a sequence unless a lead byte just before it takes it in;
\* a lead byte is no continuation byte, so it always starts one
IsStart(b, i) ==
    ~\E q \in MaxOf(1, i - 3)..(i - 1) :
        b[q] >= 194 /\ b[q] <= 244 /\ Utf8Step(b, q).n > i - q

\* buf.toString('utf8')
Utf8Decode(b) ==
    LET starts == SelectSeq([i \in 1..Len(b) |-> i], LAMBDA i : IsStart(b, i))
    IN  [k \in 1..Len(starts) |-> Utf8Step(b, starts[k]).cp]

HexDigits ==
    <<"0", "1", "2", "3", "4", "5", "6", "7",
      "8", "9", "a", "b", "c", "d", "e", "f">>

\* buf[0].toString(16) in place of buf.toString('hex'): no leading zero
toStringHexOfNumber(buf) ==
    IF buf[1] < 16 THEN <<HexDigits[buf[1] + 1]>>
    ELSE <<HexDigits[(buf[1] \div 16) + 1], HexDigits[(buf[1] % 16) + 1]>>

\* buf.toString('hex') of a one-byte buffer: two hex digits
toStringHex(buf) == <<HexDigits[(buf[1] \div 16) + 1], HexDigits[(buf[1] % 16) + 1]>>

(***************************************************************************)
(* The other JavaScript values the codec handles                           *)
(***************************************************************************)
Null == [t |-> "null"]

\* a Buffer: its bytes
Buf(bytes) == [t |-> "Buffer", bytes |-> bytes]

Undefined == [t |-> "undefined"]

Bool(b) == [t |-> "boolean", b |-> b]

Arr(items) == [t |-> "array", items |-> items]

\* an object: its own properties, in insertion order
Obj(props) == [t |-> "object", props |-> props]

Prop(key, val) == [key |-> key, val |-> val]

HasKey(props, key) == \E i \in 1..Len(props) : props[i].key = key

\* value[key] = val guarded by "if (!(key in value))": the first value stays
SetPropKeepFirst(props, key, val) ==
    IF HasKey(props, key) THEN props ELSE Append(props, Prop(key, val))

\* value[key] = val on a plain object
SetProp(props, key, val) ==
    IF HasKey(props, key)
    THEN [i \in 1..Len(props) |->
            IF props[i].key = key THEN Prop(key, val) ELSE props[i]]
    ELSE Append(props, Prop(key, val))

(***************************************************************************)
(* The source: sbuf.read(n) of a ConsumableBuffer                          *)
(***************************************************************************)
Ok(val, pos) == [ok |-> TRUE, val |-> val, pos |-> pos]

Throw(name, msg, pos) == [ok |-> FALSE, name |-> name, msg |-> msg, pos |-> pos]

\* read n bytes at the cursor and advance it; fewer than n left is an Underrun
Read(b, pos, n) ==
    IF pos + n <= Len(b)
    THEN Ok(SubSeq(b, pos + 1, pos + n), pos + n)
    ELSE Throw("Underrun", <<>>, pos)

\* sbuf.read(length) where length is a number held as a numeral
ReadCount(b, pos, length) ==
    IF Len(length) > 30 THEN Throw("Underrun", <<>>, pos)
    ELSE Read(b, pos, Val(length))

(***************************************************************************)
(* SBON: the read side                                                     *)
(***************************************************************************)
RECURSIVE readVarIntLoop(_, _, _)
readVarIntLoop(b, pos, value) ==
    LET r == Read(b, pos, 1)
    IN  IF ~r.ok THEN r
        ELSE LET byte == BigInt(FALSE, Bits(r.val[1]))
             IN  IF isZero(and(byte, Bits(128)))
                 THEN With(or(shiftLeft(value, 7), byte), LAMBDA v :
                          Ok(toJSNumber(IF isZero(v) THEN abs(v) ELSE v), r.pos))
                 ELSE With(or(shiftLeft(value, 7), and(byte, Bits(127))),
                           LAMBDA v : readVarIntLoop(b, r.pos, v))

\* readVarInt that refuses a first byte of 0x80, a group of zeros in front
readVarIntStrict(b, pos) ==
    IF pos + 1 <= Len(b) /\ b[pos + 1] = 128
    THEN Throw("Error", <<"Non-canonical VarInt">>, pos + 1)
    ELSE readVarIntLoop(b, pos, BigInt(FALSE, <<>>))

readVarInt(b, pos) == readVarIntLoop(b, pos, BigInt(FALSE, <<>>))

\* readVarIntSigned with the "minus(1)" of the odd branch left out
readVarIntSignedNoMinus(b, pos) ==
    With(readVarInt(b, pos), LAMBDA r :
        IF ~r.ok THEN r
        ELSE LET value == bigInt(r.val)
             IN  IF ~isZero(and(value, Bits(1)))
                 THEN Ok(toJSNumber(negate(shiftRight(value, 1))), r.pos)
                 ELSE Ok(toJSNumber(shiftRight(value, 1)), r.pos))

readVarIntSigned(b, pos) ==
    With(readVarInt(b, pos), LAMBDA r :
        IF ~r.ok THEN r
        ELSE LET value == bigInt(r.val)
             IN  IF ~isZero(and(value, Bits(1)))
                 THEN Ok(toJSNumber(minus1(negate(shiftRight(value, 1)))), r.pos)
                 ELSE Ok(toJSNumber(shiftRight(value, 1)), r.pos))

\* readBytes with sbuf.read() in place of sbuf.read(length): all that is left
readBytesToEnd(b, pos) ==
    With(readVarInt(b, pos), LAMBDA r :
        IF ~r.ok THEN r
        ELSE IF r.val.int # <<>>
        THEN With(ReadCount(b, r.pos, r.val.int), LAMBDA got :
                 IF ~got.ok THEN got
                 ELSE Ok(Buf(SubSeq(b, r.pos + 1, Len(b))), Len(b)))
        ELSE Ok(Buf(<<>>), r.pos))

readBytes(b, pos) ==
    With(readVarInt(b, pos), LAMBDA r :
        IF ~r.ok THEN r
        ELSE IF r.val.int # <<>>
        THEN With(ReadCount(b, r.pos, r.val.int), LAMBDA got :
                 IF ~got.ok THEN got ELSE Ok(Buf(got.val), got.pos))
        ELSE Ok(Buf(<<>>), r.pos))

readString(b, pos) ==
    With(readBytes(b, pos), LAMBDA r :
        IF ~r.ok THEN r ELSE Ok(Str(Utf8Decode(r.val.bytes)), r.pos))

RECURSIVE readDynamic(_, _)
RECURSIVE readListLoop(_, _, _, _)
RECURSIVE readMapLoop(_, _, _, _)

RECURSIVE readListLoopUnshift(_, _, _, _)

\* the loop with value.unshift(...) in place of value.push(...)
readListLoopUnshift(b, pos, i, value) ==
    IF i = <<>> THEN Ok(Arr(value), pos)
    ELSE With(readDynamic(b, pos), LAMBDA r :
             IF ~r.ok THEN r
             ELSE With(<<Dec(i), <<r.val>> \o value>>, LAMBDA n :
                      readListLoopUnshift(b, r.pos, n[1], n[2])))

\* while (i--) { value.push(await this.readDynamic(sbuf)) }
readListLoop(b, pos, i, value) ==
    IF i = <<>> THEN Ok(Arr(value), pos)
    ELSE With(readDynamic(b, pos), LAMBDA r :
             IF ~r.ok THEN r
             ELSE With(<<Dec(i), Append(value, r.val)>>, LAMBDA n :
                      readListLoop(b, r.pos, n[1], n[2])))

readList(b, pos) ==
    With(readVarInt(b, pos), LAMBDA r :
        IF ~r.ok THEN r ELSE readListLoop(b, r.pos, r.val.int, <<>>))

RECURSIVE readMapLoopPartial(_, _, _, _)

\* the loop inside try { } catch { return value }: what was read so far
readMapLoopPartial(b, pos, i, value) ==
    IF i = <<>> THEN Ok(Obj(value), pos)
    ELSE With(readString(b, pos), LAMBDA key :
             IF ~key.ok THEN Ok(Obj(value), key.pos)
             ELSE With(readDynamic(b, key.pos), LAMBDA r :
                      IF ~r.ok THEN Ok(Obj(value), r.pos)
                      ELSE With(<<Dec(i), SetProp(value, key.val.s, r.val)>>,
                                LAMBDA n : readMapLoopPartial(b, r.pos, n[1], n[2]))))

\* while (i--) { key = readString; value[key] = readDynamic }
readMapLoop(b, pos, i, value) ==
    IF i = <<>> THEN Ok(Obj(value), pos)
    ELSE With(readString(b, pos), LAMBDA key :
             IF ~key.ok THEN key
             ELSE With(readDynamic(b, key.pos), LAMBDA r :
                      IF ~r.ok THEN r
                      ELSE With(<<Dec(i), SetProp(value, key.val.s, r.val)>>,
                                LAMBDA n : readMapLoop(b, r.pos, n[1], n[2]))))

readMap(b, pos) ==
    With(readVarInt(b, pos), LAMBDA r :
        IF ~r.ok THEN r ELSE readMapLoop(b, r.pos, r.val.int, <<>>))

UnknownTypeMessage(type) ==
    <<"Unknown dynamic type 0x">> \o toStringHex(type)
        \o <<" encountered in SBON.readDynamic">>

\* readDynamic with "byte !== 0" as the Boolean: every non-zero byte is true
readDynamicTruthy(b, pos) ==
    LET type == Read(b, pos, 1)
    IN  IF ~type.ok THEN type
        ELSE CASE type.val[1] = 1 -> Ok(Null, type.pos)
               [] type.val[1] = 2 ->
                    LET r == Read(b, type.pos, 8)
                    IN  IF ~r.ok THEN r ELSE Ok(readDoubleBE(r.val), r.pos)
               [] type.val[1] = 3 ->
                    LET byte == Read(b, type.pos, 1)
                    IN  IF ~byte.ok THEN byte
                        ELSE Ok(Bool(byte.val # <<0>>), byte.pos)
               [] type.val[1] = 4 -> readVarIntSigned(b, type.pos)
               [] type.val[1] = 5 -> readString(b, type.pos)
               [] type.val[1] = 6 -> readList(b, type.pos)
               [] type.val[1] = 7 -> readMap(b, type.pos)
               [] OTHER -> Throw("Error", UnknownTypeMessage(type.val), type.pos)

readDynamic(b, pos) ==
    LET type == Read(b, pos, 1)
    IN  IF ~type.ok THEN type
        ELSE CASE type.val[1] = 1 -> Ok(Null, type.pos)
               [] type.val[1] = 2 ->
                    LET r == Read(b, type.pos, 8)
                    IN  IF ~r.ok THEN r ELSE Ok(readDoubleBE(r.val), r.pos)
               [] type.val[1] = 3 ->
                    LET byte == Read(b, type.pos, 1)
                    IN  IF ~byte.ok THEN byte
                        ELSE Ok(Bool(byte.val = <<1>>), byte.pos)
               [] type.val[1] = 4 -> readVarIntSigned(b, type.pos)
               [] type.val[1] = 5 -> readString(b, type.pos)
               [] type.val[1] = 6 -> readList(b, type.pos)
               [] type.val[1] = 7 -> readMap(b, type.pos)
               [] OTHER -> Throw("Error", UnknownTypeMessage(type.val), type.pos)

(***************************************************************************)
(* The sink: sbuf.write(x) of an ExpandingBuffer.  A write-side function   *)
(* is modelled by the sequence of write calls it makes before it returns   *)
(* or throws, with how it ends: out is "ok" (ret is the value returned),   *)
(* the name of the error thrown, or "diverges" when it never returns.      *)
(***************************************************************************)
Result(calls, out, ret, msg) ==
    [calls |-> calls, out |-> out, ret |-> ret, msg |-> msg]

\* sbuf.write(buffer): one call, appending the bytes; returns their count
Write(bytes) == Result(<<bytes>>, "ok", Len(bytes), "")

\* await a; return b
Then(a, b) ==
    With(a, LAMBDA x :
        IF x.out # "ok" THEN x
        ELSE With(b, LAMBDA y : Result(x.calls \o y.calls, y.out, y.ret, y.msg)))

(***************************************************************************)
(* SBON: the write side                                                    *)
(***************************************************************************)
\* the byte a small non-negative bigInt becomes in Buffer.from(bytes)
ByteOf(x) == Val(x.mag)

\* while (!value.isZero()) { bytes.unshift(...); value = value.shiftRight(7) }
\* A value that shiftRight(7) maps to itself and that is not zero (-1, which
\* every negative value reaches) keeps the loop running for ever.
RECURSIVE writeVarIntLoop(_, _)
writeVarIntLoop(value, bytes) ==
    IF isZero(value) THEN [done |-> TRUE, bytes |-> bytes]
    ELSE IF shiftRight(value, 7) = value THEN [done |-> FALSE, bytes |-> bytes]
    ELSE With(<<shiftRight(value, 7),
                <<ByteOf(or(and(value, Bits(127)), BigInt(FALSE, Bits(128))))>>
                    \o bytes>>,
              LAMBDA n : writeVarIntLoop(n[1], n[2]))

\* writeVarInt with bytes.push in place of bytes.unshift in the loop
writeVarIntPush(value) ==
    IF value.t = "number" /\ bigIntOfNumberThrows(value)
    THEN Result(<<>>, "Error", 0, "Invalid integer")
    ELSE With(writeVarIntLoop(shiftRight(bigInt(value), 7),
                              <<ByteOf(and(bigInt(value), Bits(127)))>>),
              LAMBDA loop : IF loop.done THEN Write(Reverse(loop.bytes))
                            ELSE Result(<<>>, "diverges", 0, ""))

\* writeVarInt without the push that precedes the loop: zero writes no byte
writeVarIntLoopOnly(value) ==
    IF value.t = "number" /\ bigIntOfNumberThrows(value)
    THEN Result(<<>>, "Error", 0, "Invalid integer")
    ELSE With(writeVarIntLoop(bigInt(value), <<>>),
              LAMBDA loop : IF loop.done THEN Write(loop.bytes)
                            ELSE Result(<<>>, "diverges", 0, ""))

\* writeVarInt with one sbuf.write per byte in place of the single write
writeVarIntByByte(value) ==
    IF value.t = "number" /\ bigIntOfNumberThrows(value)
    THEN Result(<<>>, "Error", 0, "Invalid integer")
    ELSE With(writeVarIntLoop(shiftRight(bigInt(value), 7),
                              <<ByteOf(and(bigInt(value), Bits(127)))>>),
              LAMBDA loop :
                  IF loop.done
                  THEN Result([i \in 1..Len(loop.bytes) |-> <<loop.bytes[i]>>],
                              "ok", 1, "")
                  ELSE Result(<<>>, "diverges", 0, ""))

\* writeVarInt whose loop makes one pass more: a zero group leads the bytes
writeVarIntOnePassMore(value) ==
    IF value.t = "number" /\ bigIntOfNumberThrows(value)
    THEN Result(<<>>, "Error", 0, "Invalid integer")
    ELSE With(writeVarIntLoop(shiftRight(bigInt(value), 7),
                              <<ByteOf(and(bigInt(value), Bits(127)))>>),
              LAMBDA loop : IF loop.done THEN Write(<<128>> \o loop.bytes)
                            ELSE Result(<<>>, "diverges", 0, ""))

writeVarInt(value) ==
    IF value.t = "number" /\ bigIntOfNumberThrows(value)
    THEN Result(<<>>, "Error", 0, "Invalid integer")
    ELSE With(writeVarIntLoop(shiftRight(bigInt(value), 7),
                              <<ByteOf(and(bigInt(value), Bits(127)))>>),
              LAMBDA loop : IF loop.done THEN Write(loop.bytes)
                            ELSE Result(<<>>, "diverges", 0, ""))

\* writeVarIntSigned handing its argument on as it came
writeVarIntSignedPlain(value) == value

\* writeVarIntSigned: the value handed to writeVarInt
writeVarIntSignedValue(value) ==
    LET v == bigInt(value)
        z == IF lt0(v)
             THEN or(shiftLeft(negate(add1(v)), 1), BigInt(FALSE, Bits(1)))
             ELSE shiftLeft(v, 1)
    IN  toJSNumber(z)

writeVarIntSigned(value) ==
    IF value.t = "number" /\ bigIntOfNumberThrows(value)
    THEN Result(<<>>, "Error", 0, "Invalid integer")
    ELSE writeVarInt(writeVarIntSignedValue(value))

\* writeBytes that returns early, writing nothing, when the input is empty
writeBytesSkipEmpty(value) ==
    IF value.bytes = <<>> THEN Result(<<>>, "ok", 0, "")
    ELSE Then(writeVarInt(Num(FALSE, Bits(Len(value.bytes)), <<>>)),
              Write(value.bytes))

writeBytes(value) ==
    Then(writeVarInt(Num(FALSE, Bits(Len(value.bytes)), <<>>)), Write(value.bytes))

\* writeString with value.length (UTF-16 units) as the length written
writeStringCharLength(value) ==
    Then(writeVarInt(Num(FALSE, Bits(Len(value.s)), <<>>)),
         Write(Utf8Encode(value.s)))

writeString(value) == writeBytes(Buf(Utf8Encode(value.s)))

IsDigit(c) == c >= 48 /\ c <= 57

\* a property name that is an array index: a canonical decimal numeral
IsIndexKey(key) ==
    /\ Len(key) >= 1 /\ Len(key) <= 9
    /\ \A i \in 1..Len(key) : IsDigit(key[i])
    /\ (key[1] # 48 \/ Len(key) = 1)

RECURSIVE IndexOf(_)
IndexOf(key) ==
    IF key = <<>> THEN 0
    ELSE 10 * IndexOf(SubSeq(key, 1, Len(key) - 1)) + (key[Len(key)] - 48)

\* Object.keys(value): the array indices in ascending order, then the other
\* names in insertion order
ObjectKeys(props) ==
    LET keys == [i \in 1..Len(props) |-> props[i].key]
    IN  SortSeq(SelectSeq(keys, IsIndexKey),
                LAMBDA a, b : IndexOf(a) < IndexOf(b))
          \o SelectSeq(keys, LAMBDA k : ~IsIndexKey(k))

\* value[key]
GetProp(props, key) ==
    props[CHOOSE i \in 1..Len(props) : props[i].key = key].val

RECURSIVE writeDynamic(_)
RECURSIVE writeListLoop(_, _)
RECURSIVE writeMapLoop(_, _, _)

\* for (const val of value) { res = await this.writeDynamic(sbuf, val) }
writeListLoop(items, res) ==
    IF items = <<>> THEN Result(<<>>, "ok", res, "")
    ELSE With(writeDynamic(Head(items)), LAMBDA r :
             IF r.out # "ok" THEN r
             ELSE Then(r, writeListLoop(Tail(items), r.ret)))

writeList(value) ==
    Then(writeVarInt(Num(FALSE, Bits(Len(value.items)), <<>>)),
         writeListLoop(value.items, 0))

RECURSIVE writeMapLoopValueFirst(_, _, _)

\* the loop of writeMap with the value written before its key
writeMapLoopValueFirst(props, keys, res) ==
    IF keys = <<>> THEN Result(<<>>, "ok", res, "")
    ELSE With(Then(writeDynamic(GetProp(props, Head(keys))),
                   writeString(Str(Head(keys)))), LAMBDA r :
             IF r.out # "ok" THEN r
             ELSE Then(r, writeMapLoopValueFirst(props, Tail(keys), r.ret)))

\* for (const key of keys) { writeString(key); res = writeDynamic(value[key]) }
writeMapLoop(props, keys, res) ==
    IF keys = <<>> THEN Result(<<>>, "ok", res, "")
    ELSE With(Then(writeString(Str(Head(keys))),
                   writeDynamic(GetProp(props, Head(keys)))), LAMBDA r :
             IF r.out # "ok" THEN r
             ELSE Then(r, writeMapLoop(props, Tail(keys), r.ret)))

writeMap(value) ==
    LET keys == ObjectKeys(value.props)
    IN  Then(writeVarInt(Num(FALSE, Bits(Len(keys)), <<>>)),
             writeMapLoop(value.props, keys, 0))

\* typeof value === 'number' && (value === +value && value !== (value|0))
IsDoubleBranch(value) ==
    /\ value.t = "number"
    /\ NumStrictEq(value, value)
    /\ ~NumStrictEq(value, ToInt32(value))

\* writeDynamic with value == null in place of value === null: undefined
\* is written as Nil
writeDynamicLooseNull(value) ==
    IF value.t = "null" \/ value.t = "undefined" THEN Write(<<1>>)
    ELSE IF IsDoubleBranch(value)
    THEN Then(Write(<<2>>), Write(writeDoubleBE(value)))
    ELSE IF value.t = "boolean"
    THEN Then(Write(<<3>>), Write(<<IF value.b THEN 1 ELSE 0>>))
    ELSE IF value.t = "number" \/ value.t = "bigInt"
    THEN Then(Write(<<4>>), writeVarIntSigned(value))
    ELSE IF value.t = "string"
    THEN Then(Write(<<5>>), writeString(value))
    ELSE IF value.t = "array"
    THEN Then(Write(<<6>>), writeList(value))
    ELSE Then(Write(<<7>>), writeMap(value))

\* writeDynamic that takes back what it wrote when it fails
writeDynamicAtomic(value) ==
    With(IF value.t = "null" THEN Write(<<1>>)
         ELSE IF IsDoubleBranch(value)
         THEN Then(Write(<<2>>), Write(writeDoubleBE(value)))
         ELSE IF value.t = "boolean"
         THEN Then(Write(<<3>>), Write(<<IF value.b THEN 1 ELSE 0>>))
         ELSE IF value.t = "number" \/ value.t = "bigInt"
         THEN Then(Write(<<4>>), writeVarIntSigned(value))
         ELSE IF value.t = "string"
         THEN Then(Write(<<5>>), writeString(value))
         ELSE IF value.t = "array"
         THEN Then(Write(<<6>>), writeList(value))
         ELSE IF value.t = "object"
         THEN Then(Write(<<7>>), writeMap(value))
         ELSE Result(<<>>, "TypeError", 0,
                "SBON.writeDynamic cannot identify a compatible SBON dynamic type for the provided value"),
         LAMBDA r : IF r.out = "ok" THEN r ELSE Result(<<>>, r.out, 0, r.msg))

writeDynamic(value) ==
    IF value.t = "null" THEN Write(<<1>>)
    ELSE IF IsDoubleBranch(value)
    THEN Then(Write(<<2>>), Write(writeDoubleBE(value)))
    ELSE IF value.t = "boolean"
    THEN Then(Write(<<3>>), Write(<<IF value.b THEN 1 ELSE 0>>))
    ELSE IF value.t = "number" \/ value.t = "bigInt"
    THEN Then(Write(<<4>>), writeVarIntSigned(value))
    ELSE IF value.t = "string"
    THEN Then(Write(<<5>>), writeString(value))
    ELSE IF value.t = "array"
    THEN Then(Write(<<6>>), writeList(value))
    ELSE IF value.t = "object"
    THEN Then(Write(<<7>>), writeMap(value))
    ELSE Result(<<>>, "TypeError", 0,
           "SBON.writeDynamic cannot identify a compatible SBON dynamic type for the provided value")

(***************************************************************************)
(* The arguments the operations are called with                            *)
(***************************************************************************)
MaxSmall == 3      \* the integers 0..MaxSmall are all tried
MaxGroups == 5     \* and 2^(7k) - 1, 2^(7k) for k up to MaxGroups
MaxTail == 1       \* the length of the bytes that follow an encoded value
MaxNodes == 3      \* the number of values in a nested value, containers included
MaxPairs == 3      \* the number of (key, value) pairs in a hand-made map source
MaxBytes == 3      \* the length of a hand-made VarInt source

\* the most items in a hand-made list stream
MaxItems == 3

Ones(n) == [i \in 1..n |-> 1]

\* 9999999999 and 10^10
TestLarge == Wide(37, 67888127)

TenToTen == Wide(37, 67888128)

\* 2^52 + 1, a safe integer whose negative has the zigzag image 2^53 + 1
Past52 == Inc(Shl(<<1>>, 52))

\* 2^53 + 1, which no double holds
Beyond53 == Inc(Shl(<<1>>, 53))

\* 2^64 - 1
MaxUInt64 == Ones(64)

\* a <= b on numerals
Leq(a, b) ==
    \/ Len(a) < Len(b)
    \/ a = b
    \/ /\ Len(a) = Len(b)
       /\ \E i \in 1..Len(a) :
             a[i] < b[i] /\ \A j \in (i + 1)..Len(a) : a[j] = b[j]

Numerals ==
    {Bits(n) : n \in 0..MaxSmall}
        \cup {Ones(7 * k) : k \in 1..MaxGroups}
        \cup {Shl(<<1>>, 7 * k) : k \in 1..MaxGroups}
        \cup {Bits(88), Bits(1916), Bits(624485), TestLarge, TenToTen, Past52}

\* the integers, each as a number and as a bigInt instance
IntegerArgs ==
    {Num(neg, m, <<>>) : neg \in BOOLEAN, m \in Numerals \ {<<>>}}
        \cup {Num(neg, <<>>, <<>>) : neg \in BOOLEAN}
        \cup {BigInt(neg, m) : neg \in BOOLEAN, m \in Numerals \cup {Beyond53, MaxUInt64}}

\* 10.5, -10.5 and 0.1875
Fractions ==
    {Num(FALSE, Bits(10), <<1>>), Num(TRUE, Bits(10), <<1>>),
     Num(FALSE, <<>>, <<0, 0, 1, 1>>)}

VarIntArgs == IntegerArgs \cup Fractions

\* '', 'a', 'name', 'é€' and a string of 128 bytes ('a€' 32 times)
StringArgs ==
    {Str(<<>>), Str(<<97>>), Str(<<110, 97, 109, 101>>), Str(<<233, 8364>>),
     Str([i \in 1..64 |-> IF i % 2 = 1 THEN 97 ELSE 8364])}

\* among them a buffer of 128 bytes
BytesArgs == {Buf(<<>>), Buf(<<170, 4>>), Buf(<<0>>), Buf([i \in 1..128 |-> 42])}

\* the values nested in containers
Leaves == {Null, Undefined, Bool(TRUE), Num(FALSE, Bits(30), <<>>), Str(<<97>>)}

\* 'k' and '1'
Keys == {<<107>>, <<49>>}

KeySeqs(n) ==
    {ks \in [1..n -> Keys] : \A i, j \in 1..n : ks[i] = ks[j] => i = j}

RECURSIVE ValuesOfSize(_)
RECURSIVE Forests(_)

\* the sequences of values with n values in all
Forests(n) ==
    IF n = 0 THEN {<<>>}
    ELSE UNION {{<<v>> \o rest : v \in ValuesOfSize(k), rest \in Forests(n - k)}
                  : k \in 1..n}

\* the values made of exactly n values
ValuesOfSize(n) ==
    IF n = 1 THEN Leaves \cup {Arr(<<>>), Obj(<<>>)}
    ELSE {Arr(f) : f \in Forests(n - 1)}
           \cup UNION {{Obj([i \in 1..Len(f) |-> Prop(ks[i], f[i])])
                          : ks \in KeySeqs(Len(f))} : f \in Forests(n - 1)}

Scalars ==
    {Null, Undefined, Bool(TRUE), Bool(FALSE)}
        \cup {Num(neg, m, <<>>) :
                neg \in BOOLEAN,
                m \in {Bits(30), Bits(624485), Ones(31), Shl(<<1>>, 31), TestLarge}}
        \cup {Num(neg, <<>>, <<>>) : neg \in BOOLEAN}
        \cup {BigInt(neg, m) :
                neg \in BOOLEAN, m \in {Bits(624485), TestLarge, Beyond53}}
        \cup Fractions \cup StringArgs

DynamicArgs == Scalars \cup UNION {ValuesOfSize(n) : n \in 1..MaxNodes}

ListArgs == {v \in DynamicArgs : v.t = "array"}

\* {key2: 'val2', key: 'val'}
TestMap ==
    Obj(<<Prop(<<107, 101, 121, 50>>, Str(<<118, 97, 108, 50>>)),
          Prop(<<107, 101, 121>>, Str(<<118, 97, 108>>))>>)

MapArgs == {v \in DynamicArgs : v.t = "object"} \cup {TestMap}

TailBytes == {0, 129}

Tails == UNION {[1..n -> TailBytes] : n \in 0..MaxTail}

\* sources that no encoder produced: any first byte, then a tail
RawSources == {<<b>> \o t : b \in 0..255, t \in Tails}

\* a Boolean tag followed by any payload byte, then a tail
BoolSources == {<<3, b>> \o t : b \in 0..255, t \in Tails}

\* bytes with and without the continuation bit, leading 0x80 included
VarIntBytes == {0, 1, 88, 127, 128, 142, 255}

VarIntSources == UNION {[1..n -> VarIntBytes] : n \in 1..MaxBytes}

\* the pairs of a map source: a key ('k' or '1') and a value (null, true or
\* 30), with the bytes that encode them
PairChoices ==
    {[key |-> k, val |-> v.val, bytes |-> <<1>> \o k \o v.bytes] :
        k \in Keys,
        v \in {[val |-> Null, bytes |-> <<1>>],
               [val |-> Bool(TRUE), bytes |-> <<3, 1>>],
               [val |-> Num(FALSE, Bits(30), <<>>), bytes |-> <<4, 60>>]}}

\* sequences of pairs, in which a key may occur more than once
PairSeqs == UNION {[1..n -> PairChoices] : n \in 0..MaxPairs}

\* a count, then the bytes of the pairs (count of them or more)
MapSource(count, ps) == <<count>> \o Flatten([i \in 1..Len(ps) |-> ps[i].bytes])

MapSources ==
    UNION {{MapSource(c, ps) : ps \in {q \in PairSeqs : c <= Len(q)}}
             : c \in 0..MaxPairs}

\* values next to the bytes that stand for them in a stream
ItemChoices ==
    {[val |-> Null, bytes |-> <<1>>],
     [val |-> Bool(TRUE), bytes |-> <<3, 1>>],
     [val |-> Num(FALSE, Bits(30), <<>>), bytes |-> <<4, 60>>],
     [val |-> Str(<<97>>), bytes |-> <<5, 1, 97>>]}

ItemSeqs == UNION {[1..n -> ItemChoices] : n \in 0..MaxItems}

\* a count byte, then the items' bytes
ListSource(count, items) ==
    <<count>> \o Flatten([i \in 1..Len(items) |-> items[i].bytes])

\* lists with at least as many items in the stream as the count says
ListSources ==
    UNION {{ListSource(c, items) : items \in {q \in ItemSeqs : c <= Len(q)}}
             : c \in 0..MaxItems}

HandMadeSources ==
    RawSources \cup BoolSources \cup VarIntSources \cup MapSources \cup ListSources

(***************************************************************************)
(* The state machine: a write-side call on a fresh ExpandingBuffer, a      *)
(* ConsumableBuffer made of the bytes written (with a tail) or of raw      *)
(* bytes, then a read-side call on it.                                     *)
(***************************************************************************)
NoSource == 0 - 1

Init ==
    /\ sink = <<>>
    /\ wlog = <<>>
    /\ src = <<>>
    /\ cur = 0
    /\ elen = NoSource
    /\ rlog = <<>>
    /\ procs = <<>>
    /\ slots = <<>>

\* no call made yet on the fresh ExpandingBuffer
CanWrite == wlog = <<>> /\ elen = NoSource

\* a ConsumableBuffer exists and no call was made on it yet
CanRead == elen # NoSource /\ rlog = <<>>

\* a write-side call: the sink receives the bytes of the write calls made
DoWrite(op, arg, r) ==
    /\ sink' = sink \o Flatten(r.calls)
    /\ wlog' = Append(wlog, [op |-> op, arg |-> arg, calls |-> r.calls,
                             out |-> r.out, ret |-> r.ret, msg |-> r.msg])
    /\ UNCHANGED <<src, cur, elen, rlog, procs, slots>>

CallWriteVarInt ==
    /\ CanWrite
    /\ \E v \in VarIntArgs : DoWrite("writeVarInt", v, writeVarInt(v))

CallWriteVarIntSigned ==
    /\ CanWrite
    /\ \E v \in VarIntArgs : DoWrite("writeVarIntSigned", v, writeVarIntSigned(v))

CallWriteBytes ==
    /\ CanWrite
    /\ \E v \in BytesArgs : DoWrite("writeBytes", v, writeBytes(v))

CallWriteString ==
    /\ CanWrite
    /\ \E v \in StringArgs : DoWrite("writeString", v, writeString(v))

CallWriteDynamic ==
    /\ CanWrite
    /\ \E v \in DynamicArgs : DoWrite("writeDynamic", v, writeDynamic(v))

CallWriteList ==
    /\ CanWrite
    /\ \E v \in ListArgs : DoWrite("writeList", v, writeList(v))

CallWriteMap ==
    /\ CanWrite
    /\ \E v \in MapArgs : DoWrite("writeMap", v, writeMap(v))

\* new ConsumableBuffer(the bytes written, followed by a tail)
Load ==
    /\ wlog # <<>>
    /\ elen = NoSource
    /\ \E t \in Tails : src' = sink \o t
    /\ cur' = 0
    /\ elen' = Len(sink)
    /\ UNCHANGED <<sink, wlog, rlog, procs, slots>>

\* new ConsumableBuffer(the first n of the bytes written): a cut-off stream
LoadTruncated ==
    /\ wlog # <<>>
    /\ elen = NoSource
    /\ \E n \in 0..(Len(sink) - 1) :
          /\ src' = SubSeq(sink, 1, n)
          /\ elen' = n
    /\ cur' = 0
    /\ UNCHANGED <<sink, wlog, rlog, procs, slots>>

\* new ConsumableBuffer(raw bytes)
LoadRaw ==
    /\ wlog = <<>>
    /\ elen = NoSource
    /\ \E b \in HandMadeSources : src' = b
    /\ cur' = 0
    /\ elen' = 0
    /\ UNCHANGED <<sink, wlog, rlog, procs, slots>>

\* a read-side call: the cursor is left where the call left it
DoRead(op, r) ==
    /\ rlog' = Append(rlog, [op |-> op, from |-> cur, res |-> r])
    /\ cur' = r.pos
    /\ UNCHANGED <<sink, wlog, src, elen, procs, slots>>

CallReadVarInt ==
    /\ CanRead
    /\ DoRead("readVarInt", readVarInt(src, cur))

CallReadVarIntSigned ==
    /\ CanRead
    /\ DoRead("readVarIntSigned", readVarIntSigned(src, cur))

CallReadBytes ==
    /\ CanRead
    /\ DoRead("readBytes", readBytes(src, cur))

CallReadString ==
    /\ CanRead
    /\ DoRead("readString", readString(src, cur))

CallReadDynamic ==
    /\ CanRead
    /\ DoRead("readDynamic", readDynamic(src, cur))

CallReadList ==
    /\ CanRead
    /\ DoRead("readList", readList(src, cur))

CallReadMap ==
    /\ CanRead
    /\ DoRead("readMap", readMap(src, cur))

Next ==
    \/ CallWriteVarInt
    \/ CallWriteVarIntSigned
    \/ CallWriteBytes
    \/ CallWriteString
    \/ CallWriteDynamic
    \/ CallWriteList
    \/ CallWriteMap
    \/ Load
    \/ LoadTruncated
    \/ LoadRaw
    \/ CallReadVarInt
    \/ CallReadVarIntSigned
    \/ CallReadBytes
    \/ CallReadString
    \/ CallReadDynamic
    \/ CallReadList
    \/ CallReadMap

Spec == Init /\ [][Next]_vars

(***************************************************************************)
(* Two calls at once.  Every function of SBON is async and gives way at    *)
(* each "await sbuf.read(...)" and at each "await sbuf.write(...)".  A     *)
(* read-side call in progress is the stack of the functions it is inside,  *)
(* each frame holding the function's local variables and the place it is  *)
(* at; one step of the call is one read and the code that follows it up to *)
(* the next read.  A write-side call in progress is the write calls it has *)
(* still to make, one step being one write.                                *)
(***************************************************************************)
Frame(f, at, i, key, value) ==
    [f |-> f, at |-> at, i |-> i, key |-> key, value |-> value]

Plain(f, at) == Frame(f, at, <<>>, <<>>, <<>>)

Top(stack) == stack[Len(stack)]

Pop(stack) == SubSeq(stack, 1, Len(stack) - 1)

SetTop(stack, frame) == [stack EXCEPT ![Len(stack)] = frame]

\* a call that waits for its next read; value is readVarInt's accumulator
Running(stack, value) ==
    [stack |-> stack, value |-> value, out |-> "run",
     res |-> Null, name |-> "", msg |-> <<>>]

Returned(value, res) ==
    [stack |-> <<>>, value |-> value, out |-> "ok",
     res |-> res, name |-> "", msg |-> <<>>]

Thrown(value, name, msg) ==
    [stack |-> <<>>, value |-> value, out |-> "throw",
     res |-> Null, name |-> name, msg |-> msg]

\* the tail of readVarIntSigned, from the number readVarInt returned
signedOfVarInt(n) ==
    LET value == bigInt(n)
    IN  IF ~isZero(and(value, Bits(1)))
        THEN toJSNumber(minus1(negate(shiftRight(value, 1))))
        ELSE toJSNumber(shiftRight(value, 1))

RECURSIVE Enter(_, _, _)

\* calling f: down to the function that makes the first read
Enter(stack, value, f) ==
    CASE f = "readVarInt" ->
            Running(Append(stack, Plain(f, "read")), BigInt(FALSE, <<>>))
      [] f = "readVarIntSigned" ->
            Enter(Append(stack, Plain(f, "varint")), value, "readVarInt")
      [] f = "readBytes" ->
            Enter(Append(stack, Plain(f, "length")), value, "readVarInt")
      [] f = "readString" ->
            Enter(Append(stack, Plain(f, "bytes")), value, "readBytes")
      [] f = "readDynamic" ->
            Running(Append(stack, Plain(f, "type")), value)
      [] f = "readList" ->
            Enter(Append(stack, Plain(f, "length")), value, "readVarInt")
      [] f = "readMap" ->
            Enter(Append(stack, Plain(f, "length")), value, "readVarInt")

RECURSIVE Resume(_, _, _)

\* while (i--) { ... } of readList and readMap, the frame on top
Loop(stack, value) ==
    LET top == Top(stack)
    IN  IF top.i = <<>>
        THEN Resume(Pop(stack), value,
                    IF top.f = "readList" THEN Arr(top.value) ELSE Obj(top.value))
        ELSE IF top.f = "readList"
        THEN Enter(SetTop(stack, [top EXCEPT !.at = "item", !.i = Dec(top.i)]),
                   value, "readDynamic")
        ELSE Enter(SetTop(stack, [top EXCEPT !.at = "key", !.i = Dec(top.i)]),
                   value, "readString")

\* the function on top of the stack receives what the one it awaited returned
Resume(stack, value, res) ==
    IF stack = <<>> THEN Returned(value, res)
    ELSE LET top == Top(stack)
         IN  CASE top.f = "readVarIntSigned" ->
                     Resume(Pop(stack), value, signedOfVarInt(res))
               [] top.f = "readBytes" ->
                     IF res.int # <<>>
                     THEN Running(SetTop(stack, [top EXCEPT !.at = "read",
                                                            !.i = res.int]), value)
                     ELSE Resume(Pop(stack), value, Buf(<<>>))
               [] top.f = "readString" ->
                     Resume(Pop(stack), value, Str(Utf8Decode(res.bytes)))
               [] top.f = "readDynamic" ->
                     Resume(Pop(stack), value, res)
               [] top.f \in {"readList", "readMap"} /\ top.at = "length" ->
                     Loop(SetTop(stack, [top EXCEPT !.i = res.int]), value)
               [] top.f = "readList" /\ top.at = "item" ->
                     Loop(SetTop(stack, [top EXCEPT !.value = Append(@, res)]),
                          value)
               [] top.f = "readMap" /\ top.at = "key" ->
                     Enter(SetTop(stack, [top EXCEPT !.at = "val", !.key = res.s]),
                           value, "readDynamic")
               [] top.f = "readMap" /\ top.at = "val" ->
                     Loop(SetTop(stack, [top EXCEPT
                                            !.value = SetProp(@, top.key, res)]),
                          value)

\* the switch of readDynamic on the type byte read
Dispatch(stack, value, type) ==
    CASE type[1] = 1 -> Resume(Pop(stack), value, Null)
      [] type[1] = 2 -> Running(SetTop(stack, Plain("readDynamic", "double")), value)
      [] type[1] = 3 -> Running(SetTop(stack, Plain("readDynamic", "byte")), value)
      [] type[1] = 4 ->
            Enter(SetTop(stack, Plain("readDynamic", "return")), value,
                  "readVarIntSigned")
      [] type[1] = 5 ->
            Enter(SetTop(stack, Plain("readDynamic", "return")), value, "readString")
      [] type[1] = 6 ->
            Enter(SetTop(stack, Plain("readDynamic", "return")), value, "readList")
      [] type[1] = 7 ->
            Enter(SetTop(stack, Plain("readDynamic", "return")), value, "readMap")
      [] OTHER -> Thrown(value, "Error", UnknownTypeMessage(type))

\* how many bytes the read the call waits for asks for
Wanted(top) ==
    CASE top.f = "readBytes" -> top.i
      [] top.f = "readDynamic" /\ top.at = "double" -> Bits(8)
      [] OTHER -> Bits(1)

\* the read the call waits for has returned got: on to the next read
Received(stack, value, got) ==
    LET top == Top(stack)
    IN  CASE top.f = "readVarInt" ->
                LET byte == BigInt(FALSE, Bits(got[1]))
                IN  IF isZero(and(byte, Bits(128)))
                    THEN LET v == or(shiftLeft(value, 7), byte)
                         IN  Resume(Pop(stack), v,
                                    toJSNumber(IF isZero(v) THEN abs(v) ELSE v))
                    ELSE Running(stack,
                                 or(shiftLeft(value, 7), and(byte, Bits(127))))
          [] top.f = "readBytes" -> Resume(Pop(stack), value, Buf(got))
          [] top.f = "readDynamic" /\ top.at = "type" -> Dispatch(stack, value, got)
          [] top.f = "readDynamic" /\ top.at = "double" ->
                Resume(Pop(stack), value, readDoubleBE(got))
          [] top.f = "readDynamic" /\ top.at = "byte" ->
                Resume(Pop(stack), value, Bool(got = <<1>>))

\* "value" as a static field of the class: one variable for every call
HomeStatic(p) == 1

\* where the "let value" of the readVarInt inside call p is kept: each call
\* of the function has a variable of its own
Home(p) == p

\* a read-side call, and the stream it is made on
ReadCall(op, bytes) == [side |-> "read", op |-> op, arg |-> Buf(bytes)]

\* a write-side call on a fresh ExpandingBuffer
WriteCall(op, arg) == [side |-> "write", op |-> op, arg |-> arg]

\* 1916; [30, null]; {k: 'a', 1: [false]}; [{k: 10.5}, null] as a dynamic; a
\* string cut short; 9999999999 as a signed VarInt in a dynamic
ReadCalls ==
    {ReadCall("readVarInt", <<142, 124>>),
     ReadCall("readVarInt", <<165, 160, 175, 199, 127>>),
     ReadCall("readVarIntSigned", <<204, 157, 73, 1>>),
     ReadCall("readBytes", <<2, 170, 4, 0>>),
     ReadCall("readString", <<5, 195, 169, 226, 130, 172>>),
     ReadCall("readString", <<5, 195, 169>>),
     ReadCall("readList", <<2, 4, 60, 1>>),
     ReadCall("readMap", <<2, 1, 107, 5, 1, 97, 1, 49, 6, 1, 3, 0>>),
     ReadCall("readDynamic", <<6, 2, 7, 1, 1, 107, 2, 64, 37, 0, 0, 0, 0, 0, 0, 1>>),
     ReadCall("readDynamic", <<4, 200, 160, 175, 199, 126>>),
     ReadCall("readDynamic", <<6, 1, 8>>)}

WriteCalls ==
    {WriteCall("writeVarInt", Num(FALSE, TestLarge, <<>>)),
     WriteCall("writeVarIntSigned", BigInt(TRUE, Bits(624485))),
     WriteCall("writeBytes", Buf(<<170, 4>>)),
     WriteCall("writeString", Str(<<233, 8364>>)),
     WriteCall("writeDynamic", Num(FALSE, Bits(10), <<1>>)),
     WriteCall("writeDynamic", Arr(<<Null, Undefined>>)),
     WriteCall("writeList", Arr(<<Str(<<97>>), Arr(<<Bool(TRUE)>>)>>)),
     WriteCall("writeMap",
               Obj(<<Prop(<<107>>, Num(FALSE, Bits(30), <<>>)), Prop(<<49>>, Null)>>))}

\* the call made alone, from start to end
ReadAlone(c) ==
    CASE c.op = "readVarInt" -> readVarInt(c.arg.bytes, 0)
      [] c.op = "readVarIntSigned" -> readVarIntSigned(c.arg.bytes, 0)
      [] c.op = "readBytes" -> readBytes(c.arg.bytes, 0)
      [] c.op = "readString" -> readString(c.arg.bytes, 0)
      [] c.op = "readDynamic" -> readDynamic(c.arg.bytes, 0)
      [] c.op = "readList" -> readList(c.arg.bytes, 0)
      [] c.op = "readMap" -> readMap(c.arg.bytes, 0)

WriteAlone(c) ==
    CASE c.op = "writeVarInt" -> writeVarInt(c.arg)
      [] c.op = "writeVarIntSigned" -> writeVarIntSigned(c.arg)
      [] c.op = "writeBytes" -> writeBytes(c.arg)
      [] c.op = "writeString" -> writeString(c.arg)
      [] c.op = "writeDynamic" -> writeDynamic(c.arg)
      [] c.op = "writeList" -> writeList(c.arg)
      [] c.op = "writeMap" -> writeMap(c.arg)

\* a call in progress: the stream it is on (buf, with the cursor when it is
\* a source), what it has still to do, and how it ended when it has
Proc(call, buf, pos, stack, plan, out, res, ret, name, msg, steps, mixed) ==
    [call |-> call, buf |-> buf, pos |-> pos, stack |-> stack, plan |-> plan,
     out |-> out, res |-> res, ret |-> ret, name |-> name, msg |-> msg,
     steps |-> steps, mixed |-> mixed]

\* the message of the error a write-side call ended with, "" when it has none
Said(w) == IF w.out = "ok" THEN <<>> ELSE <<w.msg>>

\* the call is made: it runs up to its first read or write
Started(c) ==
    IF c.side = "read"
    THEN Proc(c, c.arg.bytes, 0, Enter(<<>>, BigInt(FALSE, <<>>), c.op).stack,
              <<>>, "run", Null, 0, "", <<>>, 0, FALSE)
    ELSE LET w == WriteAlone(c)
         IN  IF w.calls = <<>>
             THEN Proc(c, <<>>, 0, <<>>, <<>>, w.out, Null, w.ret, w.out, Said(w),
                       0, FALSE)
             ELSE Proc(c, <<>>, 0, <<>>, w.calls, "run", Null, 0, "", <<>>,
                       0, FALSE)

\* the other of the two calls
Other(p) == 3 - p

\* the other call has begun and has not ended: this step falls inside it
Inside(p) ==
    /\ Len(procs) = 2
    /\ procs[Other(p)].steps > 0 /\ procs[Other(p)].out = "run"

\* two calls are made, each on a stream of its own
Begin ==
    /\ procs = <<>>
    /\ wlog = <<>> /\ elen = NoSource
    /\ \E a \in ReadCalls \cup WriteCalls, b \in ReadCalls \cup WriteCalls :
          /\ procs' = <<Started(a), Started(b)>>
          /\ slots' = [h \in 1..2 |-> BigInt(FALSE, <<>>)]
    /\ UNCHANGED <<sink, wlog, src, cur, elen, rlog>>

\* the read a read-side call waits for completes, and the call runs on
StepRead ==
    /\ procs # <<>>
    /\ \E p \in 1..Len(procs) :
          /\ procs[p].call.side = "read"
          /\ procs[p].out = "run"
          /\ LET me == procs[p]
                 got == ReadCount(me.buf, me.pos, Wanted(Top(me.stack)))
                 now == IF got.ok
                        THEN Received(me.stack, slots[Home(p)], got.val)
                        ELSE Thrown(slots[Home(p)], got.name, got.msg)
             IN  /\ procs' = [procs EXCEPT ![p] =
                        Proc(me.call, me.buf, got.pos, now.stack, <<>>, now.out,
                             now.res, 0, now.name, now.msg, 1,
                             me.mixed \/ Inside(p))]
                 /\ slots' = [slots EXCEPT ![Home(p)] = now.value]
    /\ UNCHANGED <<sink, wlog, src, cur, elen, rlog>>

\* the write a write-side call waits for completes, and the call runs on
StepWrite ==
    /\ procs # <<>>
    /\ \E p \in 1..2 :
          /\ procs[p].call.side = "write"
          /\ procs[p].out = "run"
          /\ LET me == procs[p]
                 last == Len(me.plan) = 1
                 w == WriteAlone(me.call)
             IN  procs' = [procs EXCEPT ![p] =
                     Proc(me.call, me.buf \o Head(me.plan), 0, <<>>, Tail(me.plan),
                          IF last THEN w.out ELSE "run", Null,
                          IF last THEN w.ret ELSE 0,
                          IF last /\ w.out # "ok" THEN w.out ELSE "",
                          IF last THEN Said(w) ELSE <<>>,
                          1, me.mixed \/ Inside(p))]
    /\ UNCHANGED <<sink, wlog, src, cur, elen, rlog, slots>>

NextTwo ==
    \/ Begin
    \/ StepRead
    \/ StepWrite

SpecTwo == Init /\ [][NextTwo]_vars

(***************************************************************************)
(* Properties                                                              *)
(***************************************************************************)
\* the write-side call made, and the read-side call made
Wrote(op) == wlog # <<>> /\ wlog[1].op = op

Did(op) == rlog # <<>> /\ rlog[1].op = op

\* the write-side call has just been made: no source is made of the sink yet
JustWrote(op) == Wrote(op) /\ elen = NoSource

\* the read-side call was made on exactly the bytes the write-side call wrote
OnBytesWritten == wlog # <<>> /\ rlog # <<>> /\ src = sink

IsInteger(v) ==
    \/ v.t = "bigInt"
    \/ v.t = "number" /\ v.cls = "finite" /\ v.frac = <<>>

Magnitude(v) == IF v.t = "bigInt" THEN v.mag ELSE v.int

Negative(v) == v.neg /\ Magnitude(v) # <<>>

\* the same integer, whether held as a number or as a bigInt
SameInteger(a, b) ==
    /\ IsInteger(a) /\ IsInteger(b)
    /\ Magnitude(a) = Magnitude(b)
    /\ Negative(a) = Negative(b)

IsNumeric(v) == v.t = "number" \/ v.t = "bigInt"

\* the same numeric value: -0 and 0 are one value, NaN equals NaN
SameNumber(a, b) ==
    IF IsInteger(a) \/ IsInteger(b) THEN SameInteger(a, b)
    ELSE /\ a.cls = b.cls
         /\ a.neg = b.neg
         /\ a.int = b.int
         /\ a.frac = b.frac

RECURSIVE IsValue(_)
\* a value built from the seven kinds only
IsValue(v) ==
    IF v.t = "array" THEN \A i \in 1..Len(v.items) : IsValue(v.items[i])
    ELSE IF v.t = "object" THEN \A i \in 1..Len(v.props) : IsValue(v.props[i].val)
    ELSE v.t \in {"null", "number", "bigInt", "boolean", "string"}

RECURSIVE ValueEq(_, _)
\* kind-aware equality: lists element by element, maps key by key whatever
\* the order of their keys
ValueEq(a, b) ==
    IF IsNumeric(a) \/ IsNumeric(b)
    THEN IsNumeric(a) /\ IsNumeric(b) /\ SameNumber(a, b)
    ELSE IF a.t # b.t THEN FALSE
    ELSE IF a.t = "array"
    THEN /\ Len(a.items) = Len(b.items)
         /\ \A i \in 1..Len(a.items) : ValueEq(a.items[i], b.items[i])
    ELSE IF a.t = "object"
    THEN /\ \A i \in 1..Len(a.props) : HasKey(b.props, a.props[i].key)
         /\ \A j \in 1..Len(b.props) : HasKey(a.props, b.props[j].key)
         /\ \A i \in 1..Len(a.props) : \A j \in 1..Len(b.props) :
               a.props[i].key = b.props[j].key
                   => ValueEq(a.props[i].val, b.props[j].val)
    ELSE a = b

(* C1: a non-negative integer up to 10^10 written by writeVarInt to an     *)
(* empty sink is returned exactly by readVarInt run on the bytes written.  *)
VarIntRoundTrip ==
    (/\ Wrote("writeVarInt") /\ Did("readVarInt") /\ OnBytesWritten
     /\ IsInteger(wlog[1].arg) /\ ~Negative(wlog[1].arg)
     /\ Leq(Magnitude(wlog[1].arg), TenToTen))
        => /\ wlog[1].out = "ok"
           /\ rlog[1].res.ok
           /\ rlog[1].res.val.t = "number"
           /\ SameInteger(rlog[1].res.val, wlog[1].arg)

\* 9999999999 went through [0xA5, 0xA0, 0xAF, 0xC7, 0x7F] and came back
VarIntRoundTripWitness ==
    /\ Wrote("writeVarInt") /\ Did("readVarInt") /\ OnBytesWritten
    /\ wlog[1].arg = Num(FALSE, TestLarge, <<>>)
    /\ sink = <<165, 160, 175, 199, 127>>
    /\ rlog[1].res.ok
    /\ rlog[1].res.val = Num(FALSE, TestLarge, <<>>)

(* C2: a signed integer of magnitude up to 10^10, negative, zero or        *)
(* positive, written by writeVarIntSigned is returned exactly by           *)
(* readVarIntSigned run on the bytes written.                              *)
SignedVarIntRoundTrip ==
    (/\ Wrote("writeVarIntSigned") /\ Did("readVarIntSigned") /\ OnBytesWritten
     /\ IsInteger(wlog[1].arg)
     /\ Leq(Magnitude(wlog[1].arg), TenToTen))
        => /\ wlog[1].out = "ok"
           /\ rlog[1].res.ok
           /\ rlog[1].res.val.t = "number"
           /\ SameInteger(rlog[1].res.val, wlog[1].arg)

\* -624485 went through [0xCC, 0x9D, 0x49] and came back
SignedVarIntRoundTripWitness ==
    /\ Wrote("writeVarIntSigned") /\ Did("readVarIntSigned") /\ OnBytesWritten
    /\ wlog[1].arg = Num(TRUE, Bits(624485), <<>>)
    /\ sink = <<204, 157, 73>>
    /\ rlog[1].res.ok
    /\ rlog[1].res.val = Num(TRUE, Bits(624485), <<>>)

(* C3: every value built from the seven kinds (nil, double, bool, signed   *)
(* integer, string, list, map, nested) written by writeDynamic is returned *)
(* by readDynamic, run on the bytes written, as a value equal to it under  *)
(* kind-aware equality.                                                    *)
ValueRoundTrip ==
    (/\ Wrote("writeDynamic") /\ Did("readDynamic") /\ OnBytesWritten
     /\ IsValue(wlog[1].arg))
        => /\ wlog[1].out = "ok"
           /\ rlog[1].res.ok
           /\ ValueEq(rlog[1].res.val, wlog[1].arg)

(* C4: when a complete encoded value E is followed by bytes T, readDynamic *)
(* on E ++ T succeeds with the result it has on E alone and leaves the     *)
(* cursor at |E|.                                                          *)
TrailingByteTolerance ==
    (Did("readDynamic") /\ rlog[1].from = 0)
        => \A n \in 0..Len(src) :
              LET alone == readDynamic(SubSeq(src, 1, n), 0)
              IN  (alone.ok /\ alone.pos = n)
                      => /\ rlog[1].res.ok
                         /\ rlog[1].res.val = alone.val
                         /\ rlog[1].res.pos = n
                         /\ cur = n

\* ['a'] followed by a byte with the continuation bit set
TrailingByteToleranceWitness ==
    /\ Wrote("writeDynamic") /\ Did("readDynamic")
    /\ wlog[1].arg = Arr(<<Str(<<97>>)>>)
    /\ src = <<6, 1, 5, 1, 97, 129>>
    /\ elen = 5
    /\ rlog[1].res.ok
    /\ cur = 5

(* C5: readDynamic on a source whose next byte is outside 0x01..0x07 fails *)
(* with the unknown-type error naming that byte as two hex digits, returns *)
(* no value, and has consumed that one byte only.                          *)
UnknownTagRejection ==
    (/\ Did("readDynamic") /\ rlog[1].from = 0
     /\ src # <<>> /\ src[1] \notin 1..7)
        => /\ ~rlog[1].res.ok
           /\ rlog[1].res.name = "Error"
           /\ rlog[1].res.msg =
                  <<"Unknown dynamic type 0x", HexDigits[(src[1] \div 16) + 1],
                    HexDigits[(src[1] % 16) + 1],
                    " encountered in SBON.readDynamic">>
           /\ cur = 1

\* tag 0x00 with bytes after it: they are left in the source
UnknownTagRejectionWitness ==
    /\ Did("readDynamic")
    /\ src = <<0, 129>>
    /\ ~rlog[1].res.ok
    /\ cur = 1

(* C6: writeVarInt of 0 and writeVarIntSigned of 0 each write exactly the  *)
(* single byte 0x00, and readVarInt and readVarIntSigned of the byte 0x00  *)
(* return zero with no negative sign.                                      *)
ZeroIsCanonical ==
    /\ (/\ Wrote("writeVarInt") \/ Wrote("writeVarIntSigned")
        /\ IsInteger(wlog[1].arg) /\ Magnitude(wlog[1].arg) = <<>>)
           => /\ wlog[1].out = "ok"
              /\ wlog[1].calls = <<(<<0>>)>>
              /\ sink = <<0>>
    /\ (/\ Did("readVarInt") \/ Did("readVarIntSigned")
        /\ rlog[1].from = 0 /\ src # <<>> /\ src[1] = 0)
           => /\ rlog[1].res.ok
              /\ rlog[1].res.val = Num(FALSE, <<>>, <<>>)
              /\ cur = 1

\* 0 written by writeVarIntSigned as [0x00] and read back as 0
ZeroIsCanonicalWitness ==
    /\ Wrote("writeVarIntSigned") /\ Did("readVarIntSigned") /\ OnBytesWritten
    /\ wlog[1].arg = Num(FALSE, <<>>, <<>>)
    /\ sink = <<0>>
    /\ rlog[1].res.ok
    /\ rlog[1].res.val = Num(FALSE, <<>>, <<>>)

(* C7: writeVarInt called with a negative integer fails with an            *)
(* InvalidArgument error, raised before any byte is written to the sink.   *)
NegativeVarIntRejected ==
    (Wrote("writeVarInt") /\ IsInteger(wlog[1].arg) /\ Negative(wlog[1].arg))
        => /\ wlog[1].out = "InvalidArgument"
           /\ wlog[1].calls = <<>>
           /\ sink = <<>>

(* C8: writeBytes of an empty byte sequence leaves exactly [0x00] in the   *)
(* sink; readBytes on a source that starts with 0x00 returns an empty      *)
(* sequence and consumes exactly one byte, whatever bytes follow.          *)
EmptyByteString ==
    /\ (Wrote("writeBytes") /\ wlog[1].arg.bytes = <<>>)
           => /\ wlog[1].out = "ok"
              /\ sink = <<0>>
    /\ (Did("readBytes") /\ rlog[1].from = 0 /\ src # <<>> /\ src[1] = 0)
           => /\ rlog[1].res.ok
              /\ rlog[1].res.val = Buf(<<>>)
              /\ cur = 1

\* the empty buffer written, then read back from [0x00, 0x81]
EmptyByteStringWitness ==
    /\ Wrote("writeBytes") /\ Did("readBytes")
    /\ wlog[1].arg = Buf(<<>>)
    /\ sink = <<0>>
    /\ src = <<0, 129>>
    /\ rlog[1].res.ok
    /\ rlog[1].res.val = Buf(<<>>)
    /\ cur = 1

\* the bytes of writeVarInt(n), for a byte count n
VarIntOfLength(n) == Flatten(writeVarInt(Num(FALSE, Bits(n), <<>>)).calls)

(* C9: writeString of a string s, the empty string included, writes the    *)
(* VarInt of the byte length of s and then the bytes of s, and readString  *)
(* on those bytes returns s.                                               *)
StringRoundTrip ==
    /\ Wrote("writeString")
           => /\ wlog[1].out = "ok"
              /\ sink = VarIntOfLength(Len(Utf8Encode(wlog[1].arg.s)))
                            \o Utf8Encode(wlog[1].arg.s)
    /\ (Wrote("writeString") /\ Did("readString") /\ OnBytesWritten)
           => /\ rlog[1].res.ok
              /\ rlog[1].res.val = wlog[1].arg
              /\ cur = Len(sink)

\* two characters of five bytes in all
StringRoundTripWitness ==
    /\ Wrote("writeString") /\ Did("readString") /\ OnBytesWritten
    /\ wlog[1].arg = Str(<<233, 8364>>)
    /\ sink = <<5, 195, 169, 226, 130, 172>>
    /\ rlog[1].res.ok
    /\ rlog[1].res.val = Str(<<233, 8364>>)

\* the tag of the first rule that matches, in the order nil, number with a
\* fractional part, boolean, any other number or bigInt, string, list, map
TagByPriority(v) ==
    IF v.t = "null" THEN 1
    ELSE IF v.t = "number" /\ v.cls = "finite" /\ v.frac # <<>> THEN 2
    ELSE IF v.t = "boolean" THEN 3
    ELSE IF v.t = "number" \/ v.t = "bigInt" THEN 4
    ELSE IF v.t = "string" THEN 5
    ELSE IF v.t = "array" THEN 6
    ELSE 7

(* C10: the tag byte writeDynamic writes is that of the first matching     *)
(* rule in the order nil 0x01, number with a fractional part 0x02, boolean *)
(* 0x03, any other number or arbitrary-precision integer 0x04, string      *)
(* 0x05, list 0x06, string-keyed mapping 0x07.                             *)
TagClassification ==
    (Wrote("writeDynamic") /\ wlog[1].arg.t # "undefined")
        => /\ wlog[1].calls # <<>>
           /\ wlog[1].calls[1] = <<TagByPriority(wlog[1].arg)>>

\* the zigzag image of an integer: 2x for x >= 0, 2(-x - 1) + 1 for x < 0
ZigZagOf(v) ==
    IF Negative(v) THEN Inc(Shl(Dec(Magnitude(v)), 1))
    ELSE Shl(Magnitude(v), 1)

\* the j-th group of seven bits of a numeral, j = 0 the least significant
GroupAt(n, j) == Val([t \in 1..7 |-> Bit(n, 7 * j + t)])

\* how many groups of seven bits a numeral takes, at least one
GroupCount(n) == IF n = <<>> THEN 1 ELSE (Len(n) + 6) \div 7

\* the canonical VarInt bytes of a numeral: most significant group first,
\* 0x80 set on every byte but the last
CanonicalVarInt(n) ==
    [i \in 1..GroupCount(n) |->
        GroupAt(n, GroupCount(n) - i) + (IF i < GroupCount(n) THEN 128 ELSE 0)]

(* C11: every integer-valued numeric input of writeDynamic, a native       *)
(* number or a bigInt of any magnitude, is written as tag 0x04 followed by *)
(* its SignedVarInt encoding, never as a double.                           *)
IntegersWrittenAsInt ==
    (Wrote("writeDynamic") /\ IsNumeric(wlog[1].arg) /\ IsInteger(wlog[1].arg))
        => /\ wlog[1].out = "ok"
           /\ sink = <<4>> \o CanonicalVarInt(ZigZagOf(wlog[1].arg))

(* C12: writeDynamic given a value of none of the seven kinds (undefined), *)
(* at top level or nested as a list element or a map value, fails with the *)
(* unsupported-value error and does not complete normally.                 *)
UnsupportedValueRejected ==
    (Wrote("writeDynamic") /\ ~IsValue(wlog[1].arg))
        => /\ wlog[1].out = "TypeError"
           /\ wlog[1].msg =
                  "SBON.writeDynamic cannot identify a compatible SBON dynamic type for the provided value"

\* [null, undefined]: the error of the second element ends the call
UnsupportedValueRejectedWitness ==
    /\ Wrote("writeDynamic")
    /\ wlog[1].arg = Arr(<<Null, Undefined>>)
    /\ wlog[1].out = "TypeError"
    /\ wlog[1].calls = <<(<<6>>), <<2>>, <<1>>>>

\* the entries of an object have distinct keys
DistinctKeys(props) ==
    \A i, j \in 1..Len(props) : props[i].key = props[j].key => i = j

RECURSIVE PairsIn(_)

\* the pairs that the bytes of a hand-made map stream, past the count, stand for
PairsIn(bytes) ==
    IF bytes = <<>> THEN <<>>
    ELSE LET p == CHOOSE q \in PairChoices :
                     /\ Len(q.bytes) <= Len(bytes)
                     /\ SubSeq(bytes, 1, Len(q.bytes)) = q.bytes
         IN  <<p>> \o PairsIn(SubSeq(bytes, Len(p.bytes) + 1, Len(bytes)))

(* C13: readMap reads a VarInt count and then exactly count (key, value)   *)
(* pairs in sequence; a key that occurs more than once is mapped to the    *)
(* value of its last occurrence, and the result holds one entry per        *)
(* distinct key.                                                           *)
MapLastKeyWins ==
    (Did("readMap") /\ rlog[1].from = 0 /\ src \in MapSources)
        => LET c == src[1]
               ps == PairsIn(Tail(src))
           IN  /\ src = MapSource(c, ps)
               /\ rlog[1].res.ok
               /\ rlog[1].res.val.t = "object"
               /\ cur = 1 + Len(Flatten([i \in 1..c |-> ps[i].bytes]))
               /\ DistinctKeys(rlog[1].res.val.props)
               /\ \A e \in 1..Len(rlog[1].res.val.props) :
                     \E i \in 1..c : ps[i].key = rlog[1].res.val.props[e].key
               /\ \A i \in 1..c :
                     (\A j \in (i + 1)..c : ps[j].key # ps[i].key)
                         => \E e \in 1..Len(rlog[1].res.val.props) :
                               rlog[1].res.val.props[e] = Prop(ps[i].key, ps[i].val)

\* {k: null, k: 30, 1: true} in the stream: k is 30 in the result
MapLastKeyWinsWitness ==
    /\ Did("readMap")
    /\ src = <<3, 1, 107, 1, 1, 107, 4, 60, 1, 49, 3, 1>>
    /\ rlog[1].res.ok
    /\ rlog[1].res.val =
           Obj(<<Prop(<<107>>, Num(FALSE, Bits(30), <<>>)), Prop(<<49>>, Bool(TRUE))>>)
    /\ cur = 12

(* C14: readList reads a VarInt count and then decodes exactly count       *)
(* values, returning them as a sequence of length count in the order they  *)
(* appear in the stream; a count of 0 yields the empty sequence and        *)
(* consumes the count byte only.                                           *)
ListInStreamOrder ==
    (Did("readList") /\ rlog[1].from = 0 /\ src \in ListSources)
        => \A items \in ItemSeqs : \A c \in 0..Len(items) :
              src = ListSource(c, items)
                  => /\ rlog[1].res.ok
                     /\ rlog[1].res.val = Arr([i \in 1..c |-> items[i].val])
                     /\ cur = 1 + Len(Flatten([i \in 1..c |-> items[i].bytes]))
                     /\ (c = 0 => rlog[1].res.val = Arr(<<>>) /\ cur = 1)

\* [30, null] read from a stream that goes on with a third value
ListInStreamOrderWitness ==
    /\ Did("readList")
    /\ src = <<2, 4, 60, 1, 3, 1>>
    /\ rlog[1].res.ok
    /\ rlog[1].res.val = Arr(<<Num(FALSE, Bits(30), <<>>), Null>>)
    /\ cur = 4

(* C15: for every list passed to writeList, the empty list included, the   *)
(* value returned is the byte count of the last write the call performed   *)
(* on the sink.                                                            *)
ListReturnsLastWrite ==
    (Wrote("writeList") /\ wlog[1].out = "ok")
        => /\ wlog[1].calls # <<>>
           /\ wlog[1].ret = Len(wlog[1].calls[Len(wlog[1].calls)])

\* each write-side function with the read-side function of the same format
Formats ==
    {<<"writeVarInt", "readVarInt">>, <<"writeVarIntSigned", "readVarIntSigned">>,
     <<"writeBytes", "readBytes">>, <<"writeString", "readString">>,
     <<"writeDynamic", "readDynamic">>, <<"writeList", "readList">>,
     <<"writeMap", "readMap">>}

\* the read-side call was made on a proper prefix of the bytes written
OnBytesCutOff ==
    /\ wlog # <<>> /\ rlog # <<>> /\ rlog[1].from = 0
    /\ Len(src) < Len(sink)
    /\ src = SubSeq(sink, 1, Len(src))

\* every byte of the source has the continuation bit set
AllContinued == \A i \in 1..Len(src) : src[i] >= 128

(* C16: when the source ends before a read-side call has read all the      *)
(* bytes its format dictates (inside a VarInt whose bytes so far all have  *)
(* the high bit set, inside the 8 bytes of a double, inside a              *)
(* length-prefixed byte sequence, or with fewer list or map elements than  *)
(* the count says), the call fails with the source's Underrun and returns  *)
(* no value.                                                               *)
UnderrunPropagated ==
    /\ \A f \in Formats :
          (Wrote(f[1]) /\ wlog[1].out = "ok" /\ Did(f[2]) /\ OnBytesCutOff)
              => ~rlog[1].res.ok /\ rlog[1].res.name = "Underrun"
    /\ (Did("readVarInt") /\ rlog[1].from = 0 /\ AllContinued)
              => ~rlog[1].res.ok /\ rlog[1].res.name = "Underrun"

\* a number written as a double, cut off after four of the eight bytes
UnderrunPropagatedWitness ==
    /\ Wrote("writeDynamic") /\ Did("readDynamic") /\ OnBytesCutOff
    /\ wlog[1].out = "ok"
    /\ wlog[1].calls[1] = <<2>>
    /\ Len(sink) = 9 /\ Len(src) = 5
    /\ ~rlog[1].res.ok /\ rlog[1].res.name = "Underrun"
    /\ cur = 1

(* C17: no silent truncation: for every non-negative integer v up to       *)
(* 2^64 - 1, readVarInt run on the canonical encoding of v returns exactly *)
(* v, and writeVarIntSigned of a bigInt of that magnitude writes the bytes *)
(* of its exact zigzag value; integers above 2^53 are not rounded on the   *)
(* way in or out.                                                          *)
NoSilentTruncation ==
    /\ (/\ Wrote("writeVarInt") /\ Did("readVarInt") /\ OnBytesWritten
        /\ wlog[1].arg.t = "bigInt" /\ ~Negative(wlog[1].arg)
        /\ Leq(wlog[1].arg.mag, MaxUInt64)
        /\ sink = CanonicalVarInt(wlog[1].arg.mag))
           => /\ rlog[1].res.ok
              /\ SameInteger(rlog[1].res.val, wlog[1].arg)
    /\ (/\ Wrote("writeVarIntSigned")
        /\ wlog[1].arg.t = "bigInt"
        /\ Leq(wlog[1].arg.mag, MaxUInt64))
           => /\ wlog[1].out = "ok"
              /\ sink = CanonicalVarInt(ZigZagOf(wlog[1].arg))

(* C18: Boolean decoding is permissive: readDynamic on tag 0x03 reads      *)
(* exactly one payload byte and returns true when that byte is 0x01 and    *)
(* false for every other byte, 0x00 and 0x02..0xFF; it never fails because *)
(* of the value of the payload byte.                                       *)
BooleanIsPermissive ==
    (Did("readDynamic") /\ rlog[1].from = 0 /\ Len(src) >= 2 /\ src[1] = 3)
        => /\ rlog[1].res.ok
           /\ rlog[1].res.val = Bool(src[2] = 1)
           /\ cur = 2

\* the payload byte 0x02 is read as false, the byte after it is left alone
BooleanIsPermissiveWitness ==
    /\ Did("readDynamic")
    /\ src = <<3, 2, 129>>
    /\ rlog[1].res.ok
    /\ rlog[1].res.val = Bool(FALSE)
    /\ cur = 2

\* call p has ended as it ends when it is made alone, and has left its
\* stream as the call made alone leaves it
EndedAsAlone(p) ==
    LET me == procs[p]
    IN  IF me.call.side = "read"
        THEN LET r == ReadAlone(me.call)
             IN  /\ me.pos = r.pos
                 /\ me.buf = me.call.arg.bytes
                 /\ IF r.ok THEN me.out = "ok" /\ me.res = r.val
                    ELSE me.out = "throw" /\ me.name = r.name /\ me.msg = r.msg
        ELSE LET w == WriteAlone(me.call)
             IN  /\ me.buf = Flatten(w.calls)
                 /\ me.out = w.out
                 /\ me.ret = w.ret
                 /\ me.msg = Said(w)

(* C19: the codec keeps no state across calls: when read-side and          *)
(* write-side calls on two distinct streams are interleaved in any order   *)
(* at their reads and writes, each call's result and each stream's final   *)
(* cursor or content are those of the calls run one after the other.       *)
NoStateAcrossCalls ==
    procs # <<>> => \A p \in 1..2 : procs[p].out # "run" => EndedAsAlone(p)

\* [{k: 10.5}, null] and 9999999999 were read with their steps interleaved
NoStateAcrossCallsWitness ==
    /\ procs # <<>>
    /\ procs[1].call = ReadCall("readDynamic",
           <<6, 2, 7, 1, 1, 107, 2, 64, 37, 0, 0, 0, 0, 0, 0, 1>>)
    /\ procs[2].call = ReadCall("readVarInt", <<165, 160, 175, 199, 127>>)
    /\ procs[1].mixed /\ procs[2].mixed
    /\ procs[1].out = "ok" /\ procs[1].pos = 16
    /\ procs[1].res =
           Arr(<<Obj(<<Prop(<<107>>, Num(FALSE, Bits(10), <<1>>))>>), Null>>)
    /\ procs[2].out = "ok" /\ procs[2].pos = 5
    /\ procs[2].res = Num(FALSE, TestLarge, <<>>)

\* the numeral of the sum of (bytes[i] AND 0x7F) * 128^(k - i) over the k bytes
Base128(bytes) ==
    Trim([t \in 1..(7 * Len(bytes)) |->
            ((bytes[Len(bytes) - ((t - 1) \div 7)] % 128) \div (2 ^ ((t - 1) % 7))) % 2])

\* the place of the first byte of the source whose high bit is clear
FirstClear ==
    CHOOSE i \in 1..Len(src) : src[i] < 128 /\ \A j \in 1..(i - 1) : src[j] >= 128

(* C20: readVarInt returns the big-endian base-128 value of the bytes it   *)
(* reads: it consumes the bytes up to and including the first byte whose   *)
(* high bit is clear and returns the sum over those k bytes of             *)
(* (byte_i AND 0x7F) * 128^(k-1-i); [0x58] gives 88, [0x8E, 0x7C] gives    *)
(* 1916 and [0xA5, 0xA0, 0xAF, 0xC7, 0x7F] gives 9999999999.               *)
VarIntIsBase128 ==
    (Did("readVarInt") /\ rlog[1].from = 0 /\ \E i \in 1..Len(src) : src[i] < 128)
        => /\ rlog[1].res.ok
           /\ rlog[1].res.val = Num(FALSE, Base128(SubSeq(src, 1, FirstClear)), <<>>)
           /\ cur = FirstClear

(* C21: for every non-negative integer, writeVarInt emits the 7-bit groups *)
(* most significant first, with 0x80 set on every byte but the last and    *)
(* clear on the last, makes exactly one write call on the sink carrying    *)
(* the whole sequence, and returns the number of bytes written.            *)
VarIntOneWrite ==
    (JustWrote("writeVarInt") /\ IsInteger(wlog[1].arg) /\ ~Negative(wlog[1].arg))
        => /\ wlog[1].out = "ok"
           /\ Len(wlog[1].calls) = 1
           /\ LET bytes == wlog[1].calls[1]
              IN  /\ bytes # <<>>
                  /\ \A i \in 1..(Len(bytes) - 1) : bytes[i] >= 128
                  /\ bytes[Len(bytes)] < 128
                  /\ Base128(bytes) = Magnitude(wlog[1].arg)
                  /\ wlog[1].ret = Len(bytes)
                  /\ sink = bytes

\* 9999999999 went out as five bytes in one write, which returned 5
VarIntOneWriteWitness ==
    /\ Wrote("writeVarInt")
    /\ wlog[1].arg = Num(FALSE, TestLarge, <<>>)
    /\ wlog[1].calls = <<(<<165, 160, 175, 199, 127>>)>>
    /\ wlog[1].ret = 5

\* the signed integer, as a number, that the zigzag image v stands for:
\* -(v >> 1) - 1 when v is odd, v >> 1 when v is even
UnZigZagOf(v) ==
    IF Bit(v, 1) = 1 THEN Num(TRUE, Inc(Shr(v, 1)), <<>>)
    ELSE Num(FALSE, Shr(v, 1), <<>>)

(* C22: zigzag mapping: writeVarIntSigned of x writes the VarInt of 2x     *)
(* when x >= 0 and of 2(-x-1)+1 when x < 0; readVarIntSigned maps a        *)
(* decoded VarInt v to -(v >> 1) - 1 when v is odd and to v >> 1 when v is *)
(* even; the two maps are inverse to each other (-1 is [0x01], -624485 is  *)
(* [0xCC, 0x9D, 0x49]).                                                    *)
ZigZagMapping ==
    /\ (Wrote("writeVarIntSigned") /\ IsInteger(wlog[1].arg))
           => /\ wlog[1].out = "ok"
              /\ sink = CanonicalVarInt(ZigZagOf(wlog[1].arg))
    /\ (/\ Did("readVarIntSigned") /\ rlog[1].from = 0
        /\ \E i \in 1..Len(src) : src[i] < 128)
           => /\ rlog[1].res.ok
              /\ rlog[1].res.val = UnZigZagOf(Base128(SubSeq(src, 1, FirstClear)))
    /\ (/\ Wrote("writeVarIntSigned") /\ IsInteger(wlog[1].arg)
        /\ Did("readVarIntSigned") /\ OnBytesWritten)
           => /\ rlog[1].res.ok
              /\ SameInteger(rlog[1].res.val, wlog[1].arg)

\* the write calls of writeString(key) followed by those of writeDynamic(val)
PairCalls(key, val) == writeString(Str(key)).calls \o writeDynamic(val).calls

RECURSIVE Concat(_)
\* the concatenation of a sequence of sequences
Concat(ss) == IF ss = <<>> THEN <<>> ELSE Head(ss) \o Concat(Tail(ss))

(* C23: writeMap writes, in this order, the VarInt of the number of keys   *)
(* and then, for each key in the object's iteration order, the writeString *)
(* of the key immediately followed by the writeDynamic of its value; the   *)
(* sink content is exactly that concatenation ({key2: 'val2', key: 'val'}  *)
(* is written with key2 before key).                                       *)
MapWrittenInOrder ==
    (JustWrote("writeMap") /\ IsValue(wlog[1].arg))
        => LET props == wlog[1].arg.props
               keys == ObjectKeys(props)
               each == [i \in 1..Len(keys) |->
                           PairCalls(keys[i], GetProp(props, keys[i]))]
           IN  /\ wlog[1].out = "ok"
               /\ wlog[1].calls =
                      <<CanonicalVarInt(Bits(Len(keys)))>> \o Concat(each)
               /\ sink = Flatten(wlog[1].calls)

\* the bytes of the test: 2, 'key2', 'val2', 'key', 'val'
MapWrittenInOrderWitness ==
    /\ Wrote("writeMap")
    /\ wlog[1].arg = TestMap
    /\ wlog[1].out = "ok"
    /\ sink = <<2, 4, 107, 101, 121, 50, 5, 4, 118, 97, 108, 50,
                3, 107, 101, 121, 5, 3, 118, 97, 108>>

(***************************************************************************)
(* One call, step by step.  A readDynamic call is made on a finite source  *)
(* whose count prefixes may claim more than the source holds, or a         *)
(* writeVarInt call is made; the writeVarInt call is followed through its  *)
(* while loop, one pass at a step.  The event loop runs a continuation     *)
(* once the read it awaits has settled, and a running loop runs on: a step *)
(* that can be taken is taken.                                             *)
(***************************************************************************)
\* counts of 0, 1, 2, 127, 16383 and 2^63 - 1
Counts ==
    {<<0>>, <<1>>, <<2>>, <<127>>, <<255, 127>>,
     <<255, 255, 255, 255, 255, 255, 255, 255, 127>>}

\* a list or a map tag, a count, and the bytes of a few items, whatever the
\* count says; and every first byte with a tail
CountSources ==
    {<<t>> \o c \o Flatten([i \in 1..Len(items) |-> items[i].bytes])
        : t \in {6, 7}, c \in Counts, items \in ItemSeqs}

OneSources == CountSources \cup RawSources

\* writeVarInt's arguments that are not negative integers
LoopArgs == {v \in VarIntArgs : ~(IsInteger(v) /\ Negative(v))}

LoopCall(arg) == [side |-> "loop", op |-> "writeVarInt", arg |-> arg]

OneCalls ==
    {ReadCall("readDynamic", b) : b \in OneSources}
        \cup {LoopCall(v) : v \in LoopArgs}

\* writeVarInt up to its while loop: value and bytes are its locals
StartedLoop(c) ==
    IF c.arg.t = "number" /\ bigIntOfNumberThrows(c.arg)
    THEN Proc(c, <<>>, 0, <<>>, <<>>, "Error", Null, 0, "Error",
              <<"Invalid integer">>, 0, FALSE)
    ELSE Proc(c, <<>>, 0,
              <<Frame("writeVarInt", "while", shiftRight(bigInt(c.arg), 7), <<>>,
                      <<ByteOf(and(bigInt(c.arg), Bits(127)))>>)>>,
              <<>>, "run", Null, 0, "", <<>>, 0, FALSE)

\* a pass of the loop that leaves value as it is
writeVarIntPassNoShift(value, bytes) ==
    [value |-> value,
     bytes |-> <<ByteOf(or(and(value, Bits(127)), BigInt(FALSE, Bits(128))))>>
                  \o bytes]

\* one pass of the while loop of writeVarInt
writeVarIntPass(value, bytes) ==
    [value |-> shiftRight(value, 7),
     bytes |-> <<ByteOf(or(and(value, Bits(127)), BigInt(FALSE, Bits(128))))>>
                  \o bytes]

BeginOne ==
    /\ procs = <<>>
    /\ wlog = <<>> /\ elen = NoSource
    /\ \E c \in OneCalls :
          /\ procs' = <<IF c.side = "loop" THEN StartedLoop(c) ELSE Started(c)>>
          /\ slots' = <<BigInt(FALSE, <<>>)>>
    /\ UNCHANGED <<sink, wlog, src, cur, elen, rlog>>

\* the loop test of writeVarInt, then either one pass or the write that
\* ends the call
StepLoop ==
    /\ procs # <<>>
    /\ \E p \in 1..Len(procs) :
          /\ procs[p].call.side = "loop"
          /\ procs[p].out = "run"
          /\ LET me == procs[p]
                 top == Top(me.stack)
                 pass == writeVarIntPass(top.i, top.value)
                 w == Write(top.value)
             IN  procs' = [procs EXCEPT ![p] =
                    IF isZero(top.i)
                    THEN Proc(me.call, Flatten(w.calls), 0, <<>>, <<>>, w.out,
                              Null, w.ret, "", <<>>, 1, FALSE)
                    ELSE Proc(me.call, <<>>, 0,
                              <<[top EXCEPT !.i = pass.value,
                                            !.value = pass.bytes]>>,
                              <<>>, "run", Null, 0, "", <<>>, 1, FALSE)]
    /\ UNCHANGED <<sink, wlog, src, cur, elen, rlog, slots>>

NextOne == BeginOne \/ StepRead \/ StepLoop

SpecLive ==
    /\ Init
    /\ [][NextOne]_vars
    /\ WF_vars(StepRead)
    /\ WF_vars(StepLoop)

\* call p has ended
Ended(p) == procs # <<>> /\ procs[p].out # "run"

\* what the running call p has left: the bytes of its source past the
\* cursor, or the bits of writeVarInt's value and the final write
Rank(me) ==
    IF me.call.side = "read" THEN Len(me.buf) - me.pos
    ELSE Len(Top(me.stack).i.mag) + 1

\* the source is a list or a map whose count is more than the elements the
\* bytes after it can hold, at one byte an element and two bytes a pair
Oversized(b) ==
    /\ b[1] \in {6, 7}
    /\ LET r == readVarInt(b, 1)
       IN  /\ r.ok
           /\ \/ Len(r.val.int) > 30
              \/ Val(r.val.int) * (IF b[1] = 6 THEN 1 ELSE 2) > Len(b) - r.pos

\* readDynamic was called on a source with an oversized count and has ended
OversizedEnded ==
    /\ procs # <<>>
    /\ procs[1].call.side = "read"
    /\ Oversized(procs[1].call.arg.bytes)
    /\ Ended(1)

(* C24: readDynamic on any finite source ends, with a value or with an     *)
(* error, whatever the count prefixes say: a call that has not ended can   *)
(* take a step, and every step either ends it or moves the cursor on by at *)
(* least one byte, so that an oversized count ends in an error, the        *)
(* source's Underrun unless a byte of unknown type is met first; and       *)
(* writeVarInt ends for every argument that is not a negative integer, a   *)
(* running loop making a pass and each pass taking bits off value.  The    *)
(* call ends as the function run in one go ends.                           *)
Terminates ==
    /\ [](procs # <<>> =>
            /\ Ended(1) =>
                  /\ EndedAsAlone(1)
                  /\ procs[1].out \in {"ok", "throw", "Error"}
            /\ ~Ended(1) =>
                  /\ procs[1].call.side \in {"read", "loop"}
                  /\ procs[1].stack # <<>>
                  /\ Rank(procs[1]) >= 0)
    /\ [][procs # <<>> => Ended(1)' \/ Rank(procs[1]') < Rank(procs[1])]_vars
    /\ [](OversizedEnded =>
            /\ procs[1].out = "throw"
            /\ \/ procs[1].name = "Underrun"
               \/ /\ procs[1].name = "Error"
                  /\ \E t \in 0..255 : procs[1].msg = UnknownTypeMessage(<<t>>))

\* a list that claims 2^63 - 1 elements and holds two has ended in Underrun
\* at the end of the source
TerminatesWitness ==
    /\ Ended(1)
    /\ procs[1].call.side = "read"
    /\ procs[1].call.arg.bytes =
          <<6, 255, 255, 255, 255, 255, 255, 255, 255, 127, 1, 3, 1>>
    /\ procs[1].out = "throw" /\ procs[1].name = "Underrun"
    /\ procs[1].pos = 13

\* the claim as it reads: an oversized count always ends in Underrun
OversizedEndsInUnderrun ==
    OversizedEnded => procs[1].out = "throw" /\ procs[1].name = "Underrun"

(* C25: the bytes writeVarInt writes are as few as can be: for every       *)
(* non-negative integer v there are exactly max(1, ceil(bitlength(v) / 7)) *)
(* of them and, when there is more than one, the first is not 0x80.        *)
VarIntMinimal ==
    (JustWrote("writeVarInt") /\ IsInteger(wlog[1].arg) /\ ~Negative(wlog[1].arg))
        => LET bitlength == Len(Magnitude(wlog[1].arg))
               groups == (bitlength + 6) \div 7
           IN  /\ wlog[1].out = "ok"
               /\ Len(sink) = IF groups < 1 THEN 1 ELSE groups
               /\ Len(sink) > 1 => sink[1] # 128

\* 2^14, the least value of three bytes, was written as [0x81, 0x80, 0x00]
VarIntMinimalWitness ==
    /\ Wrote("writeVarInt")
    /\ SameInteger(wlog[1].arg, BigInt(FALSE, Shl(<<1>>, 14)))
    /\ wlog[1].out = "ok"
    /\ sink = <<129, 128, 0>>

\* how many bytes of 0x80 the source starts with
Leading ==
    CHOOSE k \in 0..Len(src) :
        /\ \A i \in 1..k : src[i] = 128
        /\ k = Len(src) \/ src[k + 1] # 128

(* C26: readVarInt takes bytes that writeVarInt never writes: on a source  *)
(* that starts with one or more bytes 0x80 it returns what it returns on   *)
(* the source without them, with no error of its own, the cursor further   *)
(* on by their number; so two byte sequences give one value, and           *)
(* writeVarInt of the value returned does not give back the bytes read.    *)
NonCanonicalAccepted ==
    (Did("readVarInt") /\ rlog[1].from = 0 /\ Leading >= 1 /\ Leading < Len(src))
        => LET r == rlog[1].res
               rest == readVarInt(SubSeq(src, Leading + 1, Len(src)), 0)
           IN  /\ r.ok = rest.ok
               /\ r.ok => /\ r.val = rest.val
                          /\ r.pos = rest.pos + Leading
                          /\ Flatten(writeVarInt(r.val).calls) # SubSeq(src, 1, r.pos)
                          /\ Flatten(writeVarInt(r.val).calls)
                                = SubSeq(src, Leading + 1, r.pos)
               /\ ~r.ok => r.name = "Underrun" /\ rest.name = "Underrun"

\* [0x80, 0x58] was read as 88, which writeVarInt writes as [0x58]
NonCanonicalAcceptedWitness ==
    /\ Did("readVarInt") /\ rlog[1].from = 0
    /\ src = <<128, 88>>
    /\ rlog[1].res.ok
    /\ rlog[1].res.val = Num(FALSE, Bits(88), <<>>)
    /\ cur = 2
    /\ Flatten(writeVarInt(rlog[1].res.val).calls) = <<88>>

(* C27: for every integer argument, negative or not, the value that        *)
(* writeVarIntSigned hands to writeVarInt is a non-negative integer, also  *)
(* when writeVarIntSigned is reached through the integer branch of         *)
(* writeDynamic: the call writes what writeVarInt writes for that value    *)
(* and ends as writeVarInt ends for a non-negative integer.                *)
SignedPassesNonNegative ==
    /\ (JustWrote("writeVarIntSigned") /\ IsInteger(wlog[1].arg))
          => LET n == writeVarIntSignedValue(wlog[1].arg)
             IN  /\ IsInteger(n) /\ ~Negative(n)
                 /\ wlog[1].calls = writeVarInt(n).calls
                 /\ wlog[1].out = "ok"
    /\ (JustWrote("writeDynamic") /\ IsNumeric(wlog[1].arg) /\ IsInteger(wlog[1].arg)
          /\ ~IsDoubleBranch(wlog[1].arg))
          => LET n == writeVarIntSignedValue(wlog[1].arg)
             IN  /\ IsInteger(n) /\ ~Negative(n)
                 /\ wlog[1].calls = <<(<<4>>)>> \o writeVarInt(n).calls
                 /\ wlog[1].out = "ok"

\* writeDynamic(-30) handed 59 to writeVarInt and wrote [0x04] [0x3B]
SignedPassesNonNegativeWitness ==
    /\ Wrote("writeDynamic")
    /\ wlog[1].arg = Num(TRUE, Bits(30), <<>>)
    /\ writeVarIntSignedValue(wlog[1].arg) = Num(FALSE, Bits(59), <<>>)
    /\ wlog[1].calls = <<(<<4>>), (<<59>>)>>
    /\ wlog[1].out = "ok"

(***************************************************************************)
(* Calls in a row.  writeDynamic is called several times on one            *)
(* ExpandingBuffer, each call awaited before the next; a ConsumableBuffer  *)
(* is then made of the bytes written and readDynamic is called on it, each *)
(* call awaited before the next, as often as writeDynamic was.             *)
(***************************************************************************)
MaxCalls == 3

\* null, true, 30, -30, 10.5, 9999999999, bigInt 2^53 + 1, '', 'a', [],
\* [null, 'a'], {k: 30}, undefined and [null, undefined]
SeqArgs ==
    {Null, Bool(TRUE), Num(FALSE, Bits(30), <<>>), Num(TRUE, Bits(30), <<>>),
     Num(FALSE, Bits(10), <<1>>), Num(FALSE, TestLarge, <<>>),
     BigInt(FALSE, Beyond53), Str(<<>>), Str(<<97>>), Arr(<<>>),
     Arr(<<Null, Str(<<97>>)>>), Obj(<<Prop(<<107>>, Num(FALSE, Bits(30), <<>>))>>),
     Undefined, Arr(<<Null, Undefined>>)}

WriteNext ==
    /\ elen = NoSource
    /\ procs = <<>>
    /\ Len(wlog) < MaxCalls
    /\ \E v \in SeqArgs : DoWrite("writeDynamic", v, writeDynamic(v))

\* new ConsumableBuffer(sbuf.buf)
LoadAll ==
    /\ wlog # <<>>
    /\ elen = NoSource
    /\ src' = sink
    /\ cur' = 0
    /\ elen' = Len(sink)
    /\ UNCHANGED <<sink, wlog, rlog, procs, slots>>

ReadNext ==
    /\ elen # NoSource
    /\ Len(rlog) < Len(wlog)
    /\ IF rlog = <<>> THEN TRUE ELSE rlog[Len(rlog)].res.ok
    /\ DoRead("readDynamic", readDynamic(src, cur))

NextSeq == WriteNext \/ LoadAll \/ ReadNext

SpecSeq == Init /\ [][NextSeq]_vars

\* every writeDynamic call made so far has succeeded
AllWritten == wlog # <<>> /\ \A i \in 1..Len(wlog) : wlog[i].out = "ok"

\* where the bytes of the first i calls end in the sink
EndOf(i) == Len(Flatten([j \in 1..i |-> Flatten(wlog[j].calls)]))

(* C28: after any sequence of successful writeDynamic calls for v1..vn on  *)
(* one sink, n readDynamic calls in a row on a source that holds the bytes *)
(* of the sink return values equal to v1..vn in that order, and the cursor *)
(* ends exactly at the end of the bytes.                                   *)
SequenceFraming ==
    (AllWritten /\ elen # NoSource)
        => /\ \A i \in 1..Len(rlog) :
                 /\ rlog[i].res.ok
                 /\ ValueEq(wlog[i].arg, rlog[i].res.val)
           /\ Len(rlog) = Len(wlog) => cur = Len(src)

\* the framing alone: the i-th readDynamic starts where the bytes of the
\* i-th writeDynamic start, ends where they end and returns what readDynamic
\* returns on those bytes by themselves
FramesKept ==
    (AllWritten /\ elen # NoSource)
        => /\ \A i \in 1..Len(rlog) :
                 LET alone == readDynamic(Flatten(wlog[i].calls), 0)
                 IN  /\ rlog[i].from = EndOf(i - 1)
                     /\ rlog[i].res.ok /\ alone.ok
                     /\ rlog[i].res.pos = EndOf(i)
                     /\ rlog[i].res.val = alone.val
                     /\ wlog[i].arg # BigInt(FALSE, Beyond53)
                           => ValueEq(wlog[i].arg, rlog[i].res.val)
           /\ Len(rlog) = Len(wlog) => cur = Len(src)

RECURSIVE Mended(_)
\* the value with null in the place of every undefined
Mended(v) ==
    IF v.t = "undefined" THEN Null
    ELSE IF v.t = "array" THEN Arr([i \in 1..Len(v.items) |-> Mended(v.items[i])])
    ELSE IF v.t = "object"
    THEN Obj([i \in 1..Len(v.props) |-> Prop(v.props[i].key, Mended(v.props[i].val))])
    ELSE v

\* the bytes of a value, and of a key
BytesOf(v) == Flatten(writeDynamic(v).calls)

KeyBytes(key) == Flatten(writeString(Str(key)).calls)

\* the first place of a sequence of values that holds an undefined somewhere
FirstBad(vals) ==
    CHOOSE j \in 1..Len(vals) :
        ~IsValue(vals[j]) /\ \A i \in 1..(j - 1) : IsValue(vals[i])

RECURSIVE WrittenBefore(_)
\* what precedes the first undefined of v in the bytes of v: for a list its
\* tag, its count, the earlier elements and what precedes the undefined in
\* the element that holds it; for a map the keys as well, that of the
\* element that holds the undefined included
WrittenBefore(v) ==
    IF v.t = "undefined" THEN <<>>
    ELSE IF v.t = "array"
    THEN LET j == FirstBad(v.items)
         IN  <<6>> \o CanonicalVarInt(Bits(Len(v.items)))
                \o Flatten([i \in 1..(j - 1) |-> BytesOf(v.items[i])])
                \o WrittenBefore(v.items[j])
    ELSE LET keys == ObjectKeys(v.props)
             vals == [i \in 1..Len(keys) |-> GetProp(v.props, keys[i])]
             j == FirstBad(vals)
         IN  <<7>> \o CanonicalVarInt(Bits(Len(keys)))
                \o Flatten([i \in 1..(j - 1) |-> KeyBytes(keys[i]) \o BytesOf(vals[i])])
                \o KeyBytes(keys[j]) \o WrittenBefore(vals[j])

(* C29: when writeDynamic fails with the TypeError on the value it was     *)
(* called with, no byte has been written; when it fails on an element      *)
(* inside a list or a map, the tag of the container, its count and all the *)
(* elements and keys that come before are written and stay in the sink,    *)
(* which then holds a proper prefix of an encoding.                        *)
FailedWriteLeavesPrefix ==
    (JustWrote("writeDynamic") /\ ~IsValue(wlog[1].arg))
        => /\ wlog[1].out = "TypeError"
           /\ sink = Flatten(wlog[1].calls)
           /\ wlog[1].arg.t = "undefined" => wlog[1].calls = <<>> /\ sink = <<>>
           /\ wlog[1].arg.t # "undefined" =>
                 /\ sink = WrittenBefore(wlog[1].arg)
                 /\ Len(sink) >= 2
                 /\ sink[1] = IF wlog[1].arg.t = "array" THEN 6 ELSE 7
                 /\ Len(sink) < Len(BytesOf(Mended(wlog[1].arg)))
                 /\ sink = SubSeq(BytesOf(Mended(wlog[1].arg)), 1, Len(sink))

\* writeDynamic({k: undefined, 1: null}) failed after the map's tag and
\* count, the key '1' with its null and the key 'k'
FailedWriteLeavesPrefixWitness ==
    /\ Wrote("writeDynamic")
    /\ wlog[1].arg.t = "object"
    /\ wlog[1].out = "TypeError"
    /\ sink = <<7, 2, 1, 49, 1, 1, 107>>

(***************************************************************************)
(* Two calls on one stream.  Both calls are handed the same sbuf and       *)
(* neither is awaited before the other is made; SBON takes no lock, so the *)
(* calls take turns at their awaits as in SpecTwo.  The stream is kept     *)
(* with the first call (its buf and, for a source, its pos); wlog and rlog *)
(* hold the sbuf.write and sbuf.read calls made, each with the call that   *)
(* made it.                                                                *)
(***************************************************************************)
\* each call is handed a stream of its own
StreamOwn(p) == p

\* the stream call p was handed: the one sbuf
StreamOf(p) == 1

\* 1916, Buffer [0xAA, 0x04], 'é€', ['a'] and, as a dynamic, [null, undefined]
SharedWrites ==
    {WriteCall("writeVarInt", Num(FALSE, Bits(1916), <<>>)),
     WriteCall("writeBytes", Buf(<<170, 4>>)),
     WriteCall("writeString", Str(<<233, 8364>>)),
     WriteCall("writeList", Arr(<<Str(<<97>>)>>)),
     WriteCall("writeDynamic", Arr(<<Null, Undefined>>))}

SharedOps == {"readVarInt", "readString", "readDynamic"}

\* the VarInts 1916 and 88; the strings 'a' and 'b'; the dynamics [30, null]
\* and 'a'
SharedSources ==
    {<<142, 124, 88>>, <<1, 97, 1, 98>>, <<6, 2, 4, 60, 1, 5, 1, 97>>}

\* two write-side calls on one fresh ExpandingBuffer, or two read-side
\* calls on one ConsumableBuffer
BeginShared ==
    /\ procs = <<>>
    /\ wlog = <<>> /\ rlog = <<>> /\ elen = NoSource
    /\ \/ \E a \in SharedWrites, b \in SharedWrites :
             procs' = <<Started(a), Started(b)>>
       \/ \E f \in SharedOps, g \in SharedOps, bytes \in SharedSources :
             procs' = <<Started(ReadCall(f, bytes)), Started(ReadCall(g, bytes))>>
    /\ slots' = [h \in 1..2 |-> BigInt(FALSE, <<>>)]
    /\ UNCHANGED <<sink, wlog, src, cur, elen, rlog>>

\* a read-side call makes its next read on the source and runs on to the
\* read after it
ShareRead ==
    /\ procs # <<>>
    /\ \E p \in 1..2 :
          /\ procs[p].call.side = "read"
          /\ procs[p].out = "run"
          /\ LET me == procs[p]
                 on == procs[StreamOf(p)]
                 got == ReadCount(on.buf, on.pos, Wanted(Top(me.stack)))
                 now == IF got.ok
                        THEN Received(me.stack, slots[Home(p)], got.val)
                        ELSE Thrown(slots[Home(p)], got.name, got.msg)
                 after == Proc(me.call, me.buf, me.pos, now.stack, <<>>, now.out,
                               now.res, 0, now.name, now.msg, 1,
                               me.mixed \/ Inside(p))
             IN  /\ procs' = [[procs EXCEPT ![p] = after]
                                 EXCEPT ![StreamOf(p)].pos = got.pos]
                 /\ slots' = [slots EXCEPT ![Home(p)] = now.value]
                 /\ rlog' = Append(rlog, [by |-> p, from |-> on.pos,
                                          bytes |-> IF got.ok THEN got.val ELSE <<>>])
    /\ UNCHANGED <<sink, wlog, src, cur, elen>>

\* a write-side call makes its next write on the sink
ShareWrite ==
    /\ procs # <<>>
    /\ \E p \in 1..2 :
          /\ procs[p].call.side = "write"
          /\ procs[p].out = "run"
          /\ LET me == procs[p]
                 last == Len(me.plan) = 1
                 w == WriteAlone(me.call)
                 after == Proc(me.call, me.buf, 0, <<>>, Tail(me.plan),
                               IF last THEN w.out ELSE "run", Null,
                               IF last THEN w.ret ELSE 0,
                               IF last /\ w.out # "ok" THEN w.out ELSE "",
                               IF last THEN Said(w) ELSE <<>>,
                               1, me.mixed \/ Inside(p))
             IN  /\ procs' = [[procs EXCEPT ![p] = after]
                                 EXCEPT ![StreamOf(p)].buf = @ \o Head(me.plan)]
                 /\ wlog' = Append(wlog, [by |-> p, bytes |-> Head(me.plan)])
    /\ UNCHANGED <<sink, src, cur, elen, rlog, slots>>

NextShared == BeginShared \/ ShareRead \/ ShareWrite

SpecShared == Init /\ [][NextShared]_vars

\* the bytes of the writes, or of the reads, that call p has made
BytesBy(log, p) ==
    LET mine == SelectSeq(log, LAMBDA e : e.by = p)
    IN  [i \in 1..Len(mine) |-> mine[i].bytes]

BothEnded == procs # <<>> /\ procs[1].out # "run" /\ procs[2].out # "run"

\* what call p writes when it is made alone
AloneBytes(p) == Flatten(WriteAlone(procs[p].call).calls)

\* the sink holds the bytes of one call followed by those of the other
OneAfterTheOther ==
    \/ procs[1].buf = AloneBytes(1) \o AloneBytes(2)
    \/ procs[1].buf = AloneBytes(2) \o AloneBytes(1)

(* C30: SBON takes no lock on a stream it shares.  Every write of two      *)
(* write-side calls on one sink lands there whole, in the order the writes *)
(* were made, each call's writes being those it makes alone, so the calls  *)
(* can take turns between two writes and the sink can end up holding       *)
(* neither the one call's bytes followed by the other's nor the reverse;   *)
(* that happens only when a write of one call fell between two of the      *)
(* other.  Every read of two read-side calls on one source starts where    *)
(* the last read, of either call, ended, so a call can get bytes that      *)
(* belong to the other's value: it ends as it ends alone on the bytes it   *)
(* was given.                                                              *)
SharedStreamInterleaves ==
    /\ (procs # <<>> /\ procs[1].call.side = "write")
          => /\ procs[1].buf = Flatten([i \in 1..Len(wlog) |-> wlog[i].bytes])
             /\ \A p \in 1..2 :
                   LET mine == BytesBy(wlog, p)
                       alone == WriteAlone(procs[p].call).calls
                   IN  /\ Len(mine) <= Len(alone)
                       /\ mine = SubSeq(alone, 1, Len(mine))
                       /\ procs[p].out # "run" => mine = alone
             /\ (BothEnded /\ ~OneAfterTheOther)
                   => procs[1].mixed \/ procs[2].mixed
    /\ (procs # <<>> /\ procs[1].call.side = "read")
          => /\ \A i \in 1..Len(rlog) :
                   /\ rlog[i].from =
                         IF i = 1 THEN 0
                         ELSE rlog[i - 1].from + Len(rlog[i - 1].bytes)
                   /\ rlog[i].bytes =
                         SubSeq(procs[1].call.arg.bytes, rlog[i].from + 1,
                                rlog[i].from + Len(rlog[i].bytes))
             /\ procs[1].pos = Len(Flatten([i \in 1..Len(rlog) |-> rlog[i].bytes]))
             /\ \A p \in 1..2 :
                   procs[p].out # "run" =>
                      LET given == Flatten(BytesBy(rlog, p))
                          alone == ReadAlone(ReadCall(procs[p].call.op, given))
                      IN  IF alone.ok
                          THEN /\ procs[p].out = "ok"
                               /\ procs[p].res = alone.val
                               /\ alone.pos = Len(given)
                          ELSE /\ procs[p].out = "throw"
                               /\ procs[p].name = alone.name
                               /\ procs[p].msg = alone.msg

\* writeString('é€') and writeList(['a']) have both ended and the sink holds
\* the length of the string, the count of the list, the bytes of the string
\* and the element of the list
SharedStreamInterleavesWitness ==
    /\ BothEnded
    /\ procs[1].call = WriteCall("writeString", Str(<<233, 8364>>))
    /\ procs[2].call = WriteCall("writeList", Arr(<<Str(<<97>>)>>))
    /\ procs[1].out = "ok" /\ procs[2].out = "ok"
    /\ procs[1].buf = <<5, 1, 195, 169, 226, 130, 172, 5, 1, 97>>
    /\ ~OneAfterTheOther

\* two readVarInt calls on the bytes of 1916 and 88: the first got 0x8E and
\* 0x58 and returned 1880, the second got 0x7C and returned 124
SharedSourceMixed ==
    /\ BothEnded
    /\ procs[1].call = ReadCall("readVarInt", <<142, 124, 88>>)
    /\ procs[2].call.op = "readVarInt"
    /\ BytesBy(rlog, 1) = <<(<<142>>), (<<88>>)>>
    /\ BytesBy(rlog, 2) = <<(<<124>>)>>
    /\ procs[1].res = Num(FALSE, Bits(1880), <<>>)
    /\ procs[2].res = Num(FALSE, Bits(124), <<>>)
====
